---- MODULE Spec2Model ----
(***************************************************************************)
(* Model of the screenshot server (package main): request defaulting and   *)
(* validation, browserless endpoint resolution, the chromedp capture       *)
(* pipeline of screenshotHandler and the /health probe.                    *)
(*                                                                         *)
(* Representation.                                                         *)
(*  - Go strings are TLA+ strings drawn from small vocabularies; the       *)
(*    string functions used by the code (ToLower, Contains, url.Parse...)  *)
(*    are tables over these vocabularies.                                  *)
(*  - A float64 is a record [nan, v] with v in tenths (1.0 is 10); the     *)
(*    comparisons FLt/FLe/FGt are false whenever an operand is NaN, as in  *)
(*    Go.  Clip coordinates come from JSON only and are plain tenths.      *)
(*  - A Go error is a record [isErr, deadline, canceled, text]: the two    *)
(*    flags are errors.Is(err, context.DeadlineExceeded / Canceled), text  *)
(*    is err.Error() as a sequence of fragments.                           *)
(***************************************************************************)
EXTENDS Integers, Sequences, FiniteSets, TLC

VARIABLES
    raw,      \* the inbound HTTP request as sent by the client
    env,      \* process environment: CHROME_WS_ENDPOINT, BROWSERLESS_HTTP_URL
    remote,   \* what the remote browser service answers to this request
    pc,       \* "start" before the handler ran, "done" after
    route,    \* which handler ran: "normalize", "screenshot", "health"
    norm,     \* outcome of parseRequest + applyDefaults + validate
    resp,     \* the HTTP response written by the handler
    run       \* what the handler did: discovery calls, dial, pipeline state

vars == <<raw, env, remote, pc, route, norm, resp, run>>

(***************************************************************************)
(* Program constants                                                       *)
(***************************************************************************)
defaultWidth == 1920
defaultHeight == 1080
defaultFormat == "png"
defaultQuality == 90
\* 1.0, in tenths
defaultDeviceScale == 10
defaultTimeoutSec == 30
maxTimeoutSec == 120
maxAutoViewportHeight == 30000
\* 30 * time.Second, in seconds
remoteChromeDialTimeout == 30

\* The element of a one-element set.  Only({e : x \in {v}}) is e with x bound
\* to the value of v, which is computed once.
Only(S) == CHOOSE r \in S : TRUE

(***************************************************************************)
(* float64                                                                 *)
(***************************************************************************)
F(n) == [nan |-> FALSE, v |-> n]
NaN == [nan |-> TRUE, v |-> 0]
FLt(a, b) == ~a.nan /\ ~b.nan /\ a.v < b.v
FLe(a, b) == ~a.nan /\ ~b.nan /\ a.v <= b.v
FGt(a, b) == ~a.nan /\ ~b.nan /\ a.v > b.v
FEq(a, b) == ~a.nan /\ ~b.nan /\ a.v = b.v

(***************************************************************************)
(* strings                                                                 *)
(***************************************************************************)
\* strings.ToLower over the vocabulary of the model
ToLower(s) ==
    CASE s = "PNG" -> "png"
      [] s = "Jpeg" -> "jpeg"
      [] s = "WEBP" -> "webp"
      [] s = "GIF" -> "gif"
      [] s = "WebSocket closed" -> "websocket closed"
      [] s = "Handshake failed" -> "handshake failed"
      [] s = "Deadline Exceeded" -> "deadline exceeded"
      [] s = "[title=\"Deadline Exceeded\"]" -> "[title=\"deadline exceeded\"]"
      [] s = "#Connect-btn" -> "#connect-btn"
      [] s = "missing webSocketDebuggerUrl" -> "missing websocketdebuggerurl"
      [] s = "invalid webSocketDebuggerUrl" -> "invalid websocketdebuggerurl"
      [] OTHER -> s

\* the classifier words that occur inside a (lower-case) fragment
WordsIn(s) ==
    CASE s = "websocket closed" -> {"websocket"}
      [] s = "handshake failed" -> {"handshake"}
      [] s = "#connect-btn" -> {"connect"}
      [] s = "dial tcp: no such host" -> {"dial"}
      [] s = "dial tcp: connect: connection refused" -> {"dial", "connect"}
      [] s = "dial tcp: operation was canceled" -> {"dial"}
      [] s = "dial failed: " -> {"dial"}
      [] s = "context deadline exceeded" -> {"deadline exceeded"}
      [] s = "deadline exceeded" -> {"deadline exceeded"}
      [] s = "[title=\"deadline exceeded\"]" -> {"deadline exceeded"}
      [] s = "missing websocketdebuggerurl" -> {"websocket"}
      [] s = "invalid websocketdebuggerurl" -> {"websocket"}
      [] OTHER -> {}

\* strings.Contains(strings.ToLower(text), word), text a sequence of fragments
ContainsLower(text, word) ==
    \E i \in DOMAIN text : word \in WordsIn(ToLower(text[i]))

(***************************************************************************)
(* ScreenshotRequest                                                       *)
(***************************************************************************)
NoClip == [present |-> FALSE, X |-> 0, Y |-> 0, Width |-> 0, Height |-> 0]
ClipOf(x, y, w, h) == [present |-> TRUE, X |-> x, Y |-> y, Width |-> w, Height |-> h]

\* url.ParseRequestURI(r.URL): [ok, Scheme]
ParseRequestURI(u) ==
    CASE u = "" -> [ok |-> FALSE, Scheme |-> ""]
      [] u = "http://exa mple.com" -> [ok |-> FALSE, Scheme |-> ""]
      [] u = "/relative/path" -> [ok |-> TRUE, Scheme |-> ""]
      [] u = "ftp://example.com/" -> [ok |-> TRUE, Scheme |-> "ftp"]
      [] u = "http://example.com" -> [ok |-> TRUE, Scheme |-> "http"]
      [] u = "HTTPS://example.com" -> [ok |-> TRUE, Scheme |-> "https"]
      [] u = "https://example.com" -> [ok |-> TRUE, Scheme |-> "https"]
      [] OTHER -> [ok |-> FALSE, Scheme |-> ""]

\* applyDefaults without the height default
applyDefaultsNoHeight(r) ==
    LET r1 == IF r.Width = 0 THEN [r EXCEPT !.Width = defaultWidth] ELSE r
        r3 == IF r1.Format = "" THEN [r1 EXCEPT !.Format = defaultFormat] ELSE r1
        r4 == IF r3.Quality = 0 THEN [r3 EXCEPT !.Quality = defaultQuality] ELSE r3
        r5 == IF FEq(r4.DeviceScale, F(0))
              THEN [r4 EXCEPT !.DeviceScale = F(defaultDeviceScale)] ELSE r4
        r6 == IF r5.Timeout = 0 THEN [r5 EXCEPT !.Timeout = defaultTimeoutSec] ELSE r5
    IN r6

applyDefaults(r) ==
    LET r1 == IF r.Width = 0 THEN [r EXCEPT !.Width = defaultWidth] ELSE r
        r2 == IF r1.Height = 0 /\ r1.Selector = ""
              THEN [r1 EXCEPT !.Height = defaultHeight] ELSE r1
        r3 == IF r2.Format = "" THEN [r2 EXCEPT !.Format = defaultFormat] ELSE r2
        r4 == IF r3.Quality = 0 THEN [r3 EXCEPT !.Quality = defaultQuality] ELSE r3
        r5 == IF FEq(r4.DeviceScale, F(0))
              THEN [r4 EXCEPT !.DeviceScale = F(defaultDeviceScale)] ELSE r4
        r6 == IF r5.Timeout = 0 THEN [r5 EXCEPT !.Timeout = defaultTimeoutSec] ELSE r5
    IN r6

\* the error messages of validate, in the order of its checks
MsgURLRequired == "url is required"
MsgURLInvalid == "url must be a valid http/https URL"
MsgWidth == "width must be between 100 and 4096"
MsgHeight == "height must be between 100 and 10000"
MsgFormat == "format must be one of: png, jpeg, webp"
MsgQuality == "quality must be between 1 and 100"
MsgTimeout == "timeout must be between 1 and 120 seconds"
MsgDeviceScale == "device_scale must be between 0 and 4"
MsgWaitTime == "wait_time must be >= 0"
MsgClipSize == "clip width/height must be > 0"
MsgClipXY == "clip x/y must be >= 0"

\* validate with the quality and timeout checks exchanged
validateSwapped(r) ==
    LET p == ParseRequestURI(r.URL)
        f == ToLower(r.Format)
        rf == [r EXCEPT !.Format = f]
    IN  IF r.URL = "" THEN [err |-> MsgURLRequired, req |-> r]
        ELSE IF ~p.ok \/ (p.Scheme # "http" /\ p.Scheme # "https")
        THEN [err |-> MsgURLInvalid, req |-> r]
        ELSE IF r.Width < 100 \/ r.Width > 4096 THEN [err |-> MsgWidth, req |-> r]
        ELSE IF r.Height # 0 /\ (r.Height < 100 \/ r.Height > 10000)
        THEN [err |-> MsgHeight, req |-> r]
        ELSE IF r.Height = 0 /\ r.Selector = "" THEN [err |-> MsgHeight, req |-> r]
        ELSE IF f # "png" /\ f # "jpeg" /\ f # "webp" THEN [err |-> MsgFormat, req |-> r]
        ELSE IF r.Timeout < 1 \/ r.Timeout > maxTimeoutSec
        THEN [err |-> MsgTimeout, req |-> rf]
        ELSE IF r.Quality < 1 \/ r.Quality > 100 THEN [err |-> MsgQuality, req |-> rf]
        ELSE IF FLe(r.DeviceScale, F(0)) \/ FGt(r.DeviceScale, F(40))
        THEN [err |-> MsgDeviceScale, req |-> rf]
        ELSE IF r.WaitTime < 0 THEN [err |-> MsgWaitTime, req |-> rf]
        ELSE IF r.Clip.present /\ (r.Clip.Width <= 0 \/ r.Clip.Height <= 0)
        THEN [err |-> MsgClipSize, req |-> rf]
        ELSE IF r.Clip.present /\ (r.Clip.X < 0 \/ r.Clip.Y < 0)
        THEN [err |-> MsgClipXY, req |-> rf]
        ELSE [err |-> "", req |-> rf]

\* (r *ScreenshotRequest) validate: [err, req]; err = "" is nil, req is the
\* receiver afterwards (Format is case-folded once the format check passed)
validate(r) ==
    LET p == ParseRequestURI(r.URL)
        f == ToLower(r.Format)
        rf == [r EXCEPT !.Format = f]
    IN  IF r.URL = "" THEN [err |-> MsgURLRequired, req |-> r]
        ELSE IF ~p.ok \/ (p.Scheme # "http" /\ p.Scheme # "https")
        THEN [err |-> MsgURLInvalid, req |-> r]
        ELSE IF r.Width < 100 \/ r.Width > 4096 THEN [err |-> MsgWidth, req |-> r]
        ELSE IF r.Height # 0 /\ (r.Height < 100 \/ r.Height > 10000)
        THEN [err |-> MsgHeight, req |-> r]
        ELSE IF r.Height = 0 /\ r.Selector = "" THEN [err |-> MsgHeight, req |-> r]
        ELSE IF f # "png" /\ f # "jpeg" /\ f # "webp" THEN [err |-> MsgFormat, req |-> r]
        ELSE IF r.Quality < 1 \/ r.Quality > 100 THEN [err |-> MsgQuality, req |-> rf]
        ELSE IF r.Timeout < 1 \/ r.Timeout > maxTimeoutSec
        THEN [err |-> MsgTimeout, req |-> rf]
        ELSE IF FLe(r.DeviceScale, F(0)) \/ FGt(r.DeviceScale, F(40))
        THEN [err |-> MsgDeviceScale, req |-> rf]
        ELSE IF r.WaitTime < 0 THEN [err |-> MsgWaitTime, req |-> rf]
        ELSE IF r.Clip.present /\ (r.Clip.Width <= 0 \/ r.Clip.Height <= 0)
        THEN [err |-> MsgClipSize, req |-> rf]
        ELSE IF r.Clip.present /\ (r.Clip.X < 0 \/ r.Clip.Y < 0)
        THEN [err |-> MsgClipXY, req |-> rf]
        ELSE [err |-> "", req |-> rf]

(***************************************************************************)
(* parseRequest                                                            *)
(*                                                                         *)
(* raw = [Method, given, bad, f]: f holds the typed values the client      *)
(* sent, given the keys that are present (a key not given has Go's zero    *)
(* value in f), bad the keys whose text does not parse ("body" for a JSON  *)
(* body that does not bind).                                               *)
(***************************************************************************)
ZeroRequest ==
    [URL |-> "", Selector |-> "", Width |-> 0, Height |-> 0, Format |-> "",
     Quality |-> 0, WaitTime |-> 0, WaitFor |-> "", FullPage |-> FALSE,
     Headers |-> {}, UserAgent |-> "", DeviceScale |-> F(0), Mobile |-> FALSE,
     Landscape |-> FALSE, Timeout |-> 0, Clip |-> NoClip]

\* the typed query parameters in the order parseRequestFromGET reads them
GetParseOrder ==
    <<"width", "height", "quality", "wait_time", "timeout", "device_scale",
      "full_page", "mobile", "landscape", "headers">>

ParseErrMsg(key) ==
    CASE key = "width" -> "width must be integer"
      [] key = "height" -> "height must be integer"
      [] key = "quality" -> "quality must be integer"
      [] key = "wait_time" -> "wait_time must be integer"
      [] key = "timeout" -> "timeout must be integer"
      [] key = "device_scale" -> "device_scale must be number"
      [] key = "full_page" -> "full_page must be boolean"
      [] key = "mobile" -> "mobile must be boolean"
      [] key = "landscape" -> "landscape must be boolean"
      [] key = "headers" -> "headers must be a valid JSON object"

\* parseIntQuery / parseFloatQuery / parseBoolQuery: the default when the
\* parameter is absent, its value otherwise
QueryOr(r, key, value, defaultValue) == IF key \in r.given THEN value ELSE defaultValue

parseRequestFromGET(r) ==
    LET badKeys == {i \in DOMAIN GetParseOrder : GetParseOrder[i] \in r.bad}
        first == CHOOSE i \in badKeys : \A j \in badKeys : i <= j
        req == [ZeroRequest EXCEPT
                  !.URL = r.f.URL,
                  !.Selector = r.f.Selector,
                  !.Format = QueryOr(r, "format", r.f.Format, defaultFormat),
                  !.WaitFor = r.f.WaitFor,
                  !.Width = QueryOr(r, "width", r.f.Width, defaultWidth),
                  !.Height = QueryOr(r, "height", r.f.Height, 0),
                  !.Quality = QueryOr(r, "quality", r.f.Quality, defaultQuality),
                  !.WaitTime = QueryOr(r, "wait_time", r.f.WaitTime, 0),
                  !.Timeout = QueryOr(r, "timeout", r.f.Timeout, defaultTimeoutSec),
                  !.DeviceScale = QueryOr(r, "device_scale", r.f.DeviceScale,
                                          F(defaultDeviceScale)),
                  !.FullPage = QueryOr(r, "full_page", r.f.FullPage, FALSE),
                  !.Mobile = QueryOr(r, "mobile", r.f.Mobile, FALSE),
                  !.Landscape = QueryOr(r, "landscape", r.f.Landscape, FALSE),
                  !.UserAgent = r.f.UserAgent,
                  !.Headers = r.f.Headers]
    IN  IF badKeys # {}
        THEN [err |-> ParseErrMsg(GetParseOrder[first]), req |-> ZeroRequest]
        ELSE [err |-> "", req |-> req]

parseRequest(r) ==
    IF r.Method = "GET" THEN parseRequestFromGET(r)
    ELSE IF "body" \in r.bad THEN [err |-> "invalid JSON body", req |-> ZeroRequest]
    ELSE [err |-> "", req |-> applyDefaults(r.f)]

\* screenshotHandler up to the end of validation: [status, err, req];
\* status 0 means the handler goes on
Normalize(r) ==
    LET p == parseRequest(r)
        v == validate(applyDefaults(p.req))
    IN  IF p.err # "" THEN [status |-> 400, err |-> p.err, req |-> p.req]
        ELSE IF v.err # "" THEN [status |-> 400, err |-> v.err, req |-> v.req]
        ELSE [status |-> 0, err |-> "", req |-> v.req]

NoNorm == [status |-> 0, err |-> "", req |-> ZeroRequest]

(***************************************************************************)
(* URL-valued strings                                                      *)
(*                                                                         *)
(* A string that is read as a URL is the record [ok, pad, Scheme,          *)
(* Hostname, Port, Path]: ok says whether url.Parse accepts it, pad        *)
(* whether it carries surrounding white space, the other fields are what   *)
(* url.Parse returns for it.  The empty string parses to the empty URL.    *)
(***************************************************************************)
Str(scheme, hostname, port, path) ==
    [ok |-> TRUE, pad |-> FALSE, Scheme |-> scheme, Hostname |-> hostname,
     Port |-> port, Path |-> path]
EmptyStr == Str("", "", "", "")
\* a string url.Parse rejects
GarbageStr == [EmptyStr EXCEPT !.ok = FALSE]
\* a string of white space only
BlankStr == [EmptyStr EXCEPT !.pad = TRUE]

TrimSpace(s) == [s EXCEPT !.pad = FALSE]
\* u.Host == ""
HostEmpty(u) == u.Hostname = "" /\ u.Port = ""

\* strings.HasPrefix(path, prefix) over the paths of the model
HasPrefix(path, prefix) ==
    CASE prefix = "/devtools/browser/" ->
            path \in {"/devtools/browser/abc", "/devtools/browser/new1"}
      [] prefix = "/devtools/" ->
            path \in {"/devtools/browser/abc", "/devtools/browser/new1",
                      "/devtools/page/P1", "/devtools/page/P2",
                      "/devtools/page/P3", "/devtools/page/P4"}
      [] OTHER -> FALSE

\* strings.TrimRight(path, "/")
TrimRightSlash(path) == IF path = "/" THEN "" ELSE path

(***************************************************************************)
(* errors                                                                  *)
(***************************************************************************)
NoErr == [isErr |-> FALSE, deadline |-> FALSE, canceled |-> FALSE, text |-> <<>>]
\* errors.New / fmt.Errorf without %w
NewErr(text) == [isErr |-> TRUE, deadline |-> FALSE, canceled |-> FALSE, text |-> text]
\* fmt.Errorf(prefix + ": %w", e)
WrapErr(prefix, e) == [e EXCEPT !.text = <<prefix>> \o e.text]

isTimeoutErr(err) ==
    /\ err.isErr
    /\ err.deadline \/ err.canceled \/ ContainsLower(err.text, "deadline exceeded")

\* hasDevToolsPath that accepts every URL that parses, whatever its path
hasDevToolsPathAnyURL(wsRaw) ==
    LET t == TrimSpace(wsRaw)
    IN  IF t = EmptyStr THEN FALSE ELSE t.ok

hasDevToolsPath(wsRaw) ==
    LET t == TrimSpace(wsRaw)
    IN  IF t = EmptyStr THEN FALSE
        ELSE IF ~t.ok THEN FALSE
        ELSE HasPrefix(t.Path, "/devtools/")

(***************************************************************************)
(* Environment                                                             *)
(***************************************************************************)
defaultBrowserlessHTTPURL == Str("http", "localhost", "3000", "")

\* getBrowserlessHTTPURL that ignores an unset variable instead of defaulting
getBrowserlessHTTPURLNoDefault(e) ==
    IF ~e.httpSet THEN EmptyStr ELSE TrimSpace(e.httpURL)

\* os.LookupEnv("BROWSERLESS_HTTP_URL"): the default only when the variable
\* is not set at all
getBrowserlessHTTPURL(e) ==
    IF ~e.httpSet THEN defaultBrowserlessHTTPURL ELSE TrimSpace(e.httpURL)

getChromeWSEndpoint(e) == TrimSpace(e.chromeWS)

parseBrowserlessHTTPBase(rawURL) ==
    LET u == TrimSpace(rawURL)
    IN  IF u = EmptyStr
        THEN [err |-> NewErr(<<"BROWSERLESS_HTTP_URL is empty">>), u |-> EmptyStr]
        ELSE IF ~u.ok
        THEN [err |-> NewErr(<<"invalid BROWSERLESS_HTTP_URL", "parse error">>), u |-> EmptyStr]
        ELSE IF u.Scheme = ""
        THEN [err |-> NewErr(<<"invalid BROWSERLESS_HTTP_URL", "missing scheme (http/https)">>),
              u |-> EmptyStr]
        ELSE IF u.Scheme # "http" /\ u.Scheme # "https"
        THEN [err |-> NewErr(<<"invalid BROWSERLESS_HTTP_URL", "scheme must be http/https">>),
              u |-> EmptyStr]
        ELSE IF HostEmpty(u)
        THEN [err |-> NewErr(<<"invalid BROWSERLESS_HTTP_URL", "missing host">>), u |-> EmptyStr]
        ELSE [err |-> NoErr, u |-> u]

\* httpBaseHostPortWithDefault that defaults every missing port to 80
httpBaseHostPortWithDefaultHTTP(u) ==
    IF u.Hostname = ""
    THEN [err |-> NewErr(<<"invalid BROWSERLESS_HTTP_URL", "missing hostname">>),
          Hostname |-> "", Port |-> ""]
    ELSE IF u.Port # "" THEN [err |-> NoErr, Hostname |-> u.Hostname, Port |-> u.Port]
    ELSE [err |-> NoErr, Hostname |-> u.Hostname, Port |-> "80"]

httpBaseHostPortWithDefault(u) ==
    IF u.Hostname = ""
    THEN [err |-> NewErr(<<"invalid BROWSERLESS_HTTP_URL", "missing hostname">>),
          Hostname |-> "", Port |-> ""]
    ELSE IF u.Port # "" THEN [err |-> NoErr, Hostname |-> u.Hostname, Port |-> u.Port]
    ELSE IF u.Scheme = "http" THEN [err |-> NoErr, Hostname |-> u.Hostname, Port |-> "80"]
    ELSE IF u.Scheme = "https" THEN [err |-> NoErr, Hostname |-> u.Hostname, Port |-> "443"]
    ELSE [err |-> NewErr(<<"invalid BROWSERLESS_HTTP_URL", "unsupported scheme">>),
          Hostname |-> "", Port |-> ""]

wsSchemeForHTTPBase(u) ==
    IF u.Scheme = "http" THEN [err |-> NoErr, scheme |-> "ws"]
    ELSE IF u.Scheme = "https" THEN [err |-> NoErr, scheme |-> "wss"]
    ELSE [err |-> NewErr(<<"invalid BROWSERLESS_HTTP_URL", "unsupported scheme">>),
          scheme |-> ""]

\* [err, ws]: the discovered URL with the scheme and authority of httpBase
rewriteWebSocketDebuggerURL(webSocketDebuggerURL, httpBase) ==
    Only({
        IF wsRaw = EmptyStr
        THEN [err |-> NewErr(<<"missing webSocketDebuggerUrl">>), ws |-> EmptyStr]
        ELSE IF ~wsRaw.ok
        THEN [err |-> NewErr(<<"invalid webSocketDebuggerUrl", "parse error">>),
              ws |-> EmptyStr]
        ELSE IF wsRaw.Scheme = "" \/ HostEmpty(wsRaw)
        THEN [err |-> NewErr(<<"invalid webSocketDebuggerUrl", "missing scheme or host">>),
              ws |-> EmptyStr]
        ELSE IF hostPort.err.isErr THEN [err |-> hostPort.err, ws |-> EmptyStr]
        ELSE IF desired.err.isErr THEN [err |-> desired.err, ws |-> EmptyStr]
        ELSE [err |-> NoErr,
              ws |-> [wsRaw EXCEPT !.Scheme = desired.scheme,
                                   !.Hostname = hostPort.Hostname,
                                   !.Port = hostPort.Port]] :
        wsRaw \in {TrimSpace(webSocketDebuggerURL)},
        hostPort \in {httpBaseHostPortWithDefault(httpBase)},
        desired \in {wsSchemeForHTTPBase(httpBase)} })

\* [err, u]: the HTTP base of a bare ws/wss endpoint
httpBaseFromWSEndpoint(ws) ==
    LET u == TrimSpace(ws)
    IN  IF u = EmptyStr THEN [err |-> NewErr(<<"ws endpoint is empty">>), u |-> EmptyStr]
        ELSE IF ~u.ok THEN [err |-> NewErr(<<"parse error">>), u |-> EmptyStr]
        ELSE IF u.Scheme # "ws" /\ u.Scheme # "wss"
        THEN [err |-> NewErr(<<"scheme must be ws/wss">>), u |-> EmptyStr]
        ELSE IF HostEmpty(u) THEN [err |-> NewErr(<<"missing host">>), u |-> EmptyStr]
        ELSE [err |-> NoErr,
              u |-> Str(IF u.Scheme = "wss" THEN "https" ELSE "http",
                        u.Hostname, u.Port, u.Path)]

(***************************************************************************)
(* Discovery over the HTTP control plane                                   *)
(*                                                                         *)
(* remote.version, remote.new and remote.list are what the three discovery *)
(* calls meet: [kind, err, body, ws] with kind "transport" (client.Do      *)
(* fails with err), "status" (non-2xx answer with the given body),         *)
(* "badjson" (body does not decode) or "ok" (ws is the advertised          *)
(* webSocketDebuggerUrl; for /json/list the sequence of them).             *)
(***************************************************************************)
Call(what, base) == [req |-> what, base |-> base]

\* the error of one discovery call that did not deliver a payload
CallError(o, what) ==
    CASE o.kind = "transport" -> o.err
      [] o.kind = "status" -> NewErr(<<what, "returned non-2xx status", o.body>>)
      [] o.kind = "badjson" -> NewErr(<<"invalid character in JSON body">>)

\* PUT /json/new opens a new target in the browser: the n-th page target the
\* remote creates has its own id
PagePath(n) ==
    CASE n = 1 -> "/devtools/page/P1"
      [] n = 2 -> "/devtools/page/P3"
      [] OTHER -> "/devtools/page/P4"

\* what PUT /json/new meets: rm.new, the advertised URL being that of the
\* target this call creates when rm.new advertises a page target
JSONNewAnswer(rm) ==
    IF rm.new.kind = "ok" /\ rm.new.ws.Path = PagePath(1)
    THEN [rm.new EXCEPT !.ws.Path = PagePath(rm.created + 1)]
    ELSE rm.new

\* the remote after the discovery calls of one resolution
AfterCalls(rm, calls) ==
    IF rm.new.kind = "ok" /\ \E i \in DOMAIN calls : calls[i].req = "PUT /json/new"
    THEN [rm EXCEPT !.created = @ + 1]
    ELSE rm

resolveWSEndpointViaJSONNew(rm, httpBase) ==
    Only({
        IF o.kind # "ok"
        THEN [err |-> CallError(o, "browserless /json/new"), ws |-> EmptyStr, calls |-> calls]
        ELSE IF ~hasDevToolsPath(o.ws)
        THEN [err |-> NewErr(<<"browserless /json/new returned non-devtools ws">>),
              ws |-> EmptyStr, calls |-> calls]
        ELSE IF rewritten.err.isErr
        THEN [err |-> rewritten.err, ws |-> EmptyStr, calls |-> calls]
        ELSE [err |-> NoErr, ws |-> rewritten.ws, calls |-> calls] :
        o \in {JSONNewAnswer(rm)},
        calls \in {<<Call("PUT /json/new", httpBase)>>},
        rewritten \in {rewriteWebSocketDebuggerURL(JSONNewAnswer(rm).ws, httpBase)} })

resolveWSEndpointViaJSONList(rm, httpBase) ==
    Only({
        LET usable == {i \in DOMAIN o.ws :
                          /\ hasDevToolsPath(o.ws[i])
                          /\ ~rewriteWebSocketDebuggerURL(o.ws[i], httpBase).err.isErr}
            first == CHOOSE i \in usable : \A j \in usable : i <= j
        IN  IF o.kind # "ok"
            THEN [err |-> CallError(o, "browserless /json/list"), ws |-> EmptyStr,
                  calls |-> calls]
            ELSE IF usable # {}
            THEN [err |-> NoErr,
                  ws |-> rewriteWebSocketDebuggerURL(o.ws[first], httpBase).ws,
                  calls |-> calls]
            ELSE [err |-> NewErr(<<"browserless /json/list returned targets, but none has a usable devtools ws">>),
                  ws |-> EmptyStr, calls |-> calls] :
        o \in {rm.list},
        calls \in {<<Call("GET /json/list", httpBase)>>} })

\* resolveWSEndpointViaJSONVersion that returns the error of the last
\* fallback when the chain is exhausted
resolveWSEndpointViaJSONVersionLastErr(rm, httpBase) ==
    Only({
        IF o.kind # "ok"
        THEN [err |-> CallError(o, "browserless /json/version"), ws |-> EmptyStr,
              calls |-> calls]
        ELSE IF hasDevToolsPath(rawWS)
        THEN (IF rewritten.err.isErr
              THEN [err |-> rewritten.err, ws |-> EmptyStr, calls |-> calls]
              ELSE [err |-> NoErr, ws |-> rewritten.ws, calls |-> calls])
        ELSE IF ~viaNew.err.isErr
        THEN [err |-> NoErr, ws |-> viaNew.ws, calls |-> calls \o viaNew.calls]
        ELSE IF ~viaList.err.isErr
        THEN [err |-> NoErr, ws |-> viaList.ws,
              calls |-> calls \o viaNew.calls \o viaList.calls]
        ELSE [err |-> viaList.err,
              ws |-> EmptyStr, calls |-> calls \o viaNew.calls \o viaList.calls] :
        o \in {rm.version},
        calls \in {<<Call("GET /json/version", httpBase)>>},
        rawWS \in {TrimSpace(rm.version.ws)},
        rewritten \in {rewriteWebSocketDebuggerURL(TrimSpace(rm.version.ws), httpBase)},
        viaNew \in {resolveWSEndpointViaJSONNew(rm, httpBase)},
        viaList \in {resolveWSEndpointViaJSONList(rm, httpBase)} })

\* resolveWSEndpointViaJSONVersion that asks /json/list before /json/new
resolveWSEndpointViaJSONVersionListFirst(rm, httpBase) ==
    Only({
        IF o.kind # "ok"
        THEN [err |-> CallError(o, "browserless /json/version"), ws |-> EmptyStr,
              calls |-> calls]
        ELSE IF hasDevToolsPath(rawWS)
        THEN (IF rewritten.err.isErr
              THEN [err |-> rewritten.err, ws |-> EmptyStr, calls |-> calls]
              ELSE [err |-> NoErr, ws |-> rewritten.ws, calls |-> calls])
        ELSE IF ~viaList.err.isErr
        THEN [err |-> NoErr, ws |-> viaList.ws, calls |-> calls \o viaList.calls]
        ELSE IF ~viaNew.err.isErr
        THEN [err |-> NoErr, ws |-> viaNew.ws,
              calls |-> calls \o viaList.calls \o viaNew.calls]
        ELSE [err |-> NewErr(<<"browserless /json/version returned non-devtools ws",
                               "(advertised ws)",
                               "and fallbacks (/json/new,/json/list) failed">>),
              ws |-> EmptyStr, calls |-> calls \o viaList.calls \o viaNew.calls] :
        o \in {rm.version},
        calls \in {<<Call("GET /json/version", httpBase)>>},
        rawWS \in {TrimSpace(rm.version.ws)},
        rewritten \in {rewriteWebSocketDebuggerURL(TrimSpace(rm.version.ws), httpBase)},
        viaNew \in {resolveWSEndpointViaJSONNew(rm, httpBase)},
        viaList \in {resolveWSEndpointViaJSONList(rm, httpBase)} })

\* resolveWSEndpointViaJSONVersion that turns to the fallbacks whenever
\* /json/version gave no usable URL, a failed call included
resolveWSEndpointViaJSONVersionEager(rm, httpBase) ==
    Only({
        IF o.kind = "ok" /\ hasDevToolsPath(rawWS)
        THEN (IF rewritten.err.isErr
              THEN [err |-> rewritten.err, ws |-> EmptyStr, calls |-> calls]
              ELSE [err |-> NoErr, ws |-> rewritten.ws, calls |-> calls])
        ELSE IF ~viaNew.err.isErr
        THEN [err |-> NoErr, ws |-> viaNew.ws, calls |-> calls \o viaNew.calls]
        ELSE IF ~viaList.err.isErr
        THEN [err |-> NoErr, ws |-> viaList.ws,
              calls |-> calls \o viaNew.calls \o viaList.calls]
        ELSE [err |-> NewErr(<<"browserless /json/version returned non-devtools ws",
                               "(advertised ws)",
                               "and fallbacks (/json/new,/json/list) failed">>),
              ws |-> EmptyStr, calls |-> calls \o viaNew.calls \o viaList.calls] :
        o \in {rm.version},
        calls \in {<<Call("GET /json/version", httpBase)>>},
        rawWS \in {TrimSpace(rm.version.ws)},
        rewritten \in {rewriteWebSocketDebuggerURL(TrimSpace(rm.version.ws), httpBase)},
        viaNew \in {resolveWSEndpointViaJSONNew(rm, httpBase)},
        viaList \in {resolveWSEndpointViaJSONList(rm, httpBase)} })

\* [err, ws, calls].  The final error quotes the advertised URL (%q), which
\* is the fragment "(advertised ws)" here.
resolveWSEndpointViaJSONVersion(rm, httpBase) ==
    Only({
        IF o.kind # "ok"
        THEN [err |-> CallError(o, "browserless /json/version"), ws |-> EmptyStr,
              calls |-> calls]
        ELSE IF hasDevToolsPath(rawWS)
        THEN (IF rewritten.err.isErr
              THEN [err |-> rewritten.err, ws |-> EmptyStr, calls |-> calls]
              ELSE [err |-> NoErr, ws |-> rewritten.ws, calls |-> calls])
        ELSE IF ~viaNew.err.isErr
        THEN [err |-> NoErr, ws |-> viaNew.ws, calls |-> calls \o viaNew.calls]
        ELSE IF ~viaList.err.isErr
        THEN [err |-> NoErr, ws |-> viaList.ws,
              calls |-> calls \o viaNew.calls \o viaList.calls]
        ELSE [err |-> NewErr(<<"browserless /json/version returned non-devtools ws",
                               "(advertised ws)",
                               "and fallbacks (/json/new,/json/list) failed">>),
              ws |-> EmptyStr, calls |-> calls \o viaNew.calls \o viaList.calls] :
        o \in {rm.version},
        calls \in {<<Call("GET /json/version", httpBase)>>},
        rawWS \in {TrimSpace(rm.version.ws)},
        rewritten \in {rewriteWebSocketDebuggerURL(TrimSpace(rm.version.ws), httpBase)},
        viaNew \in {resolveWSEndpointViaJSONNew(rm, httpBase)},
        viaList \in {resolveWSEndpointViaJSONList(rm, httpBase)} })

\* resolveConfigured that asks /json/version of every direct endpoint, a full
\* one included
resolveConfiguredAlwaysDiscovers(ws, httpBaseRaw, conv, base, rm) ==
    IF ws # EmptyStr
    THEN (IF conv.err.isErr
          THEN [ws |-> EmptyStr, configured |-> TRUE,
                err |-> WrapErr("invalid CHROME_WS_ENDPOINT", conv.err), calls |-> <<>>]
          ELSE Only({ [ws |-> viaWS.ws, configured |-> TRUE, err |-> viaWS.err,
                       calls |-> viaWS.calls] :
                      viaWS \in {resolveWSEndpointViaJSONVersion(rm, conv.u)} }))
    ELSE IF httpBaseRaw = EmptyStr
    THEN [ws |-> EmptyStr, configured |-> FALSE,
          err |-> NewErr(<<"browserless endpoint is not configured">>), calls |-> <<>>]
    ELSE IF base.err.isErr
    THEN [ws |-> EmptyStr, configured |-> TRUE, err |-> base.err, calls |-> <<>>]
    ELSE Only({ [ws |-> viaHTTP.ws, configured |-> TRUE, err |-> viaHTTP.err,
                 calls |-> viaHTTP.calls] :
                viaHTTP \in {resolveWSEndpointViaJSONVersion(rm, base.u)} })

\* resolveConfigured that turns to the HTTP address when the direct endpoint
\* cannot be converted
resolveConfiguredFallsBack(ws, httpBaseRaw, conv, base, rm) ==
    IF ws # EmptyStr /\ ws.ok /\ HasPrefix(ws.Path, "/devtools/browser/")
    THEN [ws |-> ws, configured |-> TRUE, err |-> NoErr, calls |-> <<>>]
    ELSE IF ws # EmptyStr /\ ~conv.err.isErr
    THEN Only({ [ws |-> viaWS.ws, configured |-> TRUE, err |-> viaWS.err,
                 calls |-> viaWS.calls] :
                viaWS \in {resolveWSEndpointViaJSONVersion(rm, conv.u)} })
    ELSE IF httpBaseRaw = EmptyStr
    THEN [ws |-> EmptyStr, configured |-> FALSE,
          err |-> NewErr(<<"browserless endpoint is not configured">>), calls |-> <<>>]
    ELSE IF base.err.isErr
    THEN [ws |-> EmptyStr, configured |-> TRUE, err |-> base.err, calls |-> <<>>]
    ELSE Only({ [ws |-> viaHTTP.ws, configured |-> TRUE, err |-> viaHTTP.err,
                 calls |-> viaHTTP.calls] :
                viaHTTP \in {resolveWSEndpointViaJSONVersion(rm, base.u)} })

\* resolveWSEndpoint once the configured values are read
resolveConfigured(ws, httpBaseRaw, conv, base, rm) ==
    IF ws # EmptyStr
    THEN (IF ws.ok /\ HasPrefix(ws.Path, "/devtools/browser/")
          THEN [ws |-> ws, configured |-> TRUE, err |-> NoErr, calls |-> <<>>]
          ELSE IF conv.err.isErr
          THEN [ws |-> EmptyStr, configured |-> TRUE,
                err |-> WrapErr("invalid CHROME_WS_ENDPOINT", conv.err), calls |-> <<>>]
          ELSE Only({ [ws |-> viaWS.ws, configured |-> TRUE, err |-> viaWS.err,
                       calls |-> viaWS.calls] :
                      viaWS \in {resolveWSEndpointViaJSONVersion(rm, conv.u)} }))
    ELSE IF httpBaseRaw = EmptyStr
    THEN [ws |-> EmptyStr, configured |-> FALSE,
          err |-> NewErr(<<"browserless endpoint is not configured">>), calls |-> <<>>]
    ELSE IF base.err.isErr
    THEN [ws |-> EmptyStr, configured |-> TRUE, err |-> base.err, calls |-> <<>>]
    ELSE Only({ [ws |-> viaHTTP.ws, configured |-> TRUE, err |-> viaHTTP.err,
                 calls |-> viaHTTP.calls] :
                viaHTTP \in {resolveWSEndpointViaJSONVersion(rm, base.u)} })

\* [ws, configured, err, calls]
resolveWSEndpoint(e, rm) ==
    Only({ resolveConfigured(ws, httpBaseRaw, conv, base, rm) :
             ws \in {getChromeWSEndpoint(e)},
             httpBaseRaw \in {getBrowserlessHTTPURL(e)},
             conv \in {httpBaseFromWSEndpoint(getChromeWSEndpoint(e))},
             base \in {parseBrowserlessHTTPBase(getBrowserlessHTTPURL(e))} })

(***************************************************************************)
(* The capture pipeline of screenshotHandler                               *)
(*                                                                         *)
(* remote.dial = [expired, err]: err is what the dial-phase chromedp.Run   *)
(* returns, expired whether dialCtx.Err() is DeadlineExceeded by then.     *)
(* remote.failAt names the action of the main chromedp.Run whose CDP call  *)
(* fails with remote.phaseErr ("none": no call fails).  remote.layout,     *)
(* remote.scroll and remote.rect are what the page measures (tenths of a   *)
(* pixel), remote.img the bytes Page.captureScreenshot returns.            *)
(***************************************************************************)
\* Actions with the content size measured for every full-page request, an
\* explicit clip notwithstanding
ActionsFullPageOverClip(req) ==
    <<"network.Enable", "SetDeviceMetricsOverride">>
    \o (IF req.UserAgent # "" THEN <<"SetUserAgentOverride">> ELSE <<>>)
    \o (IF req.Headers # {} THEN <<"SetExtraHTTPHeaders">> ELSE <<>>)
    \o <<"Navigate", "WaitReady">>
    \o (IF req.WaitFor # "" THEN <<"WaitVisible(wait_for)">> ELSE <<>>)
    \o (IF req.WaitTime > 0 THEN <<"Sleep">> ELSE <<>>)
    \o (IF req.Selector # "" /\ req.Height = 0 THEN <<"AutoExpand">> ELSE <<>>)
    \o (IF req.Selector # ""
        THEN <<"ScrollIntoView", "WaitVisible(selector)", "MeasureSelector">>
        ELSE IF req.FullPage THEN <<"FullPageMetrics">>
        ELSE <<>>)
    \o <<"Capture">>

\* Actions with the auto-expand step for every selector capture
ActionsAlwaysExpand(req) ==
    <<"network.Enable", "SetDeviceMetricsOverride">>
    \o (IF req.UserAgent # "" THEN <<"SetUserAgentOverride">> ELSE <<>>)
    \o (IF req.Headers # {} THEN <<"SetExtraHTTPHeaders">> ELSE <<>>)
    \o <<"Navigate", "WaitReady">>
    \o (IF req.WaitFor # "" THEN <<"WaitVisible(wait_for)">> ELSE <<>>)
    \o (IF req.WaitTime > 0 THEN <<"Sleep">> ELSE <<>>)
    \o (IF req.Selector # "" THEN <<"AutoExpand">> ELSE <<>>)
    \o (IF req.Selector # ""
        THEN <<"ScrollIntoView", "WaitVisible(selector)", "MeasureSelector">>
        ELSE IF req.FullPage /\ ~req.Clip.present THEN <<"FullPageMetrics">>
        ELSE <<>>)
    \o <<"Capture">>

\* Actions with the navigation put before the configuration of the browser
ActionsNavigateFirst(req) ==
    <<"Navigate", "WaitReady", "network.Enable", "SetDeviceMetricsOverride">>
    \o (IF req.UserAgent # "" THEN <<"SetUserAgentOverride">> ELSE <<>>)
    \o (IF req.Headers # {} THEN <<"SetExtraHTTPHeaders">> ELSE <<>>)
    \o (IF req.WaitFor # "" THEN <<"WaitVisible(wait_for)">> ELSE <<>>)
    \o (IF req.WaitTime > 0 THEN <<"Sleep">> ELSE <<>>)
    \o (IF req.Selector # "" /\ req.Height = 0 THEN <<"AutoExpand">> ELSE <<>>)
    \o (IF req.Selector # ""
        THEN <<"ScrollIntoView", "WaitVisible(selector)", "MeasureSelector">>
        ELSE IF req.FullPage /\ ~req.Clip.present THEN <<"FullPageMetrics">>
        ELSE <<>>)
    \o <<"Capture">>

\* the action list assembled at part_000:713-870, in order
Actions(req) ==
    <<"network.Enable", "SetDeviceMetricsOverride">>
    \o (IF req.UserAgent # "" THEN <<"SetUserAgentOverride">> ELSE <<>>)
    \o (IF req.Headers # {} THEN <<"SetExtraHTTPHeaders">> ELSE <<>>)
    \o <<"Navigate", "WaitReady">>
    \o (IF req.WaitFor # "" THEN <<"WaitVisible(wait_for)">> ELSE <<>>)
    \o (IF req.WaitTime > 0 THEN <<"Sleep">> ELSE <<>>)
    \o (IF req.Selector # "" /\ req.Height = 0 THEN <<"AutoExpand">> ELSE <<>>)
    \o (IF req.Selector # ""
        THEN <<"ScrollIntoView", "WaitVisible(selector)", "MeasureSelector">>
        ELSE IF req.FullPage /\ ~req.Clip.present THEN <<"FullPageMetrics">>
        ELSE <<>>)
    \o <<"Capture">>

\* int64(math.Ceil(x)) of a positive x given in tenths
Ceil(x) == (x + 9) \div 10

Metrics(w, h, req) ==
    [width |-> w, height |-> h, scale |-> req.DeviceScale, mobile |-> req.Mobile]

NoCapture ==
    [issued |-> FALSE, format |-> "", quality |-> 0, hasQuality |-> FALSE,
     clip |-> NoClip, beyondViewport |-> FALSE]

\* StartState that leaves the viewport as requested whatever the flags
StartStateNoSwap(req) ==
    LET w0 == req.Width
        h0 == IF req.Height = 0 THEN defaultHeight ELSE req.Height
    IN  [err |-> NoErr,
         viewportWidth |-> w0,
         viewportHeight |-> h0,
         clip |-> req.Clip,
         metrics |-> <<>>,
         ran |-> <<>>,
         capture |-> NoCapture,
         img |-> ""]

\* the state the closures of the handler share while chromedp.Run executes
StartState(req) ==
    LET w0 == req.Width
        h0 == IF req.Height = 0 THEN defaultHeight ELSE req.Height
        swap == req.Mobile /\ req.Landscape
    IN  [err |-> NoErr,
         viewportWidth |-> IF swap THEN h0 ELSE w0,
         viewportHeight |-> IF swap THEN w0 ELSE h0,
         clip |-> req.Clip,
         metrics |-> <<>>,
         ran |-> <<>>,
         capture |-> NoCapture,
         img |-> ""]

\* AutoExpand without the upper bound on the viewport height
AutoExpandNoCeiling(st, req, rm) ==
    LET useLayout == rm.layout.ok /\ rm.layout.h > 0
        pageHeight == IF useLayout THEN rm.layout.h ELSE rm.scroll.h
        d0 == Ceil(pageHeight)
        desired == IF d0 < st.viewportHeight THEN st.viewportHeight ELSE d0
    IN  IF ~useLayout /\ ~rm.scroll.ok
        THEN [st EXCEPT !.err = NewErr(<<"could not evaluate script">>)]
        ELSE IF pageHeight <= 0
        THEN [st EXCEPT !.err = NewErr(<<"failed to determine page height">>)]
        ELSE IF desired # st.viewportHeight
        THEN [st EXCEPT !.viewportHeight = desired,
                        !.metrics = Append(@, Metrics(st.viewportWidth, desired, req))]
        ELSE st

\* AutoExpand that re-applies the device metrics whatever the height it computed
AutoExpandAlwaysApplies(st, req, rm) ==
    LET useLayout == rm.layout.ok /\ rm.layout.h > 0
        pageHeight == IF useLayout THEN rm.layout.h ELSE rm.scroll.h
        d0 == Ceil(pageHeight)
        d1 == IF d0 < st.viewportHeight THEN st.viewportHeight ELSE d0
        desired == IF d1 > maxAutoViewportHeight THEN maxAutoViewportHeight ELSE d1
    IN  IF ~useLayout /\ ~rm.scroll.ok
        THEN [st EXCEPT !.err = NewErr(<<"could not evaluate script">>)]
        ELSE IF pageHeight <= 0
        THEN [st EXCEPT !.err = NewErr(<<"failed to determine page height">>)]
        ELSE [st EXCEPT !.viewportHeight = desired,
                        !.metrics = Append(@, Metrics(st.viewportWidth, desired, req))]

\* the auto-expand closure (part_000:749-794)
AutoExpand(st, req, rm) ==
    LET useLayout == rm.layout.ok /\ rm.layout.h > 0
        pageHeight == IF useLayout THEN rm.layout.h ELSE rm.scroll.h
        d0 == Ceil(pageHeight)
        d1 == IF d0 < st.viewportHeight THEN st.viewportHeight ELSE d0
        desired == IF d1 > maxAutoViewportHeight THEN maxAutoViewportHeight ELSE d1
    IN  IF ~useLayout /\ ~rm.scroll.ok
        THEN [st EXCEPT !.err = NewErr(<<"could not evaluate script">>)]
        ELSE IF pageHeight <= 0
        THEN [st EXCEPT !.err = NewErr(<<"failed to determine page height">>)]
        ELSE IF desired # st.viewportHeight
        THEN [st EXCEPT !.viewportHeight = desired,
                        !.metrics = Append(@, Metrics(st.viewportWidth, desired, req))]
        ELSE st

\* the bounding-box closure (part_000:807-829)
MeasureSelector(st, req, rm) ==
    IF rm.rect.Width <= 0 \/ rm.rect.Height <= 0
    THEN [st EXCEPT !.err = NewErr(<<"selector resolved but has empty bounding box: ",
                                     req.Selector>>)]
    ELSE [st EXCEPT !.clip = ClipOf(rm.rect.X, rm.rect.Y, rm.rect.Width, rm.rect.Height)]

\* the full-page closure (part_000:833-846)
FullPageMetrics(st, rm) ==
    IF ~rm.layout.ok
    THEN [st EXCEPT !.err = NewErr(<<"failed to get layout metrics content size">>)]
    ELSE IF rm.layout.w <= 0 \/ rm.layout.h <= 0
    THEN [st EXCEPT !.err = NewErr(<<"invalid content size">>)]
    ELSE [st EXCEPT !.clip = ClipOf(0, 0, rm.layout.w, rm.layout.h)]

\* the capture closure with the quality sent for every format
CaptureAlwaysQuality(st, req, rm) ==
    [st EXCEPT
        !.capture = [issued |-> TRUE,
                     format |-> req.Format,
                     quality |-> req.Quality,
                     hasQuality |-> TRUE,
                     clip |-> st.clip,
                     beyondViewport |-> req.FullPage /\ req.Selector = ""
                                        /\ ~req.Clip.present],
        !.img = rm.img]

\* the capture closure (part_000:850-870)
Capture(st, req, rm) ==
    [st EXCEPT
        !.capture = [issued |-> TRUE,
                     format |-> req.Format,
                     quality |-> IF req.Format \in {"jpeg", "webp"} THEN req.Quality ELSE 0,
                     hasQuality |-> req.Format \in {"jpeg", "webp"},
                     clip |-> st.clip,
                     beyondViewport |-> req.FullPage /\ req.Selector = ""
                                        /\ ~req.Clip.present],
        !.img = rm.img]

\* one action of the list, its CDP call succeeding
Step(name, st, req, rm) ==
    CASE name = "SetDeviceMetricsOverride" ->
            [st EXCEPT !.metrics = Append(@, Metrics(st.viewportWidth, st.viewportHeight, req))]
      [] name = "AutoExpand" -> AutoExpand(st, req, rm)
      [] name = "MeasureSelector" -> MeasureSelector(st, req, rm)
      [] name = "FullPageMetrics" -> FullPageMetrics(st, rm)
      [] name = "Capture" -> Capture(st, req, rm)
      [] OTHER -> st

\* chromedp.Run(taskCtx, actions...): the actions in order, stopping at the
\* first error
RECURSIVE RunFrom(_, _, _, _, _)
RunFrom(actions, i, st, req, rm) ==
    IF i > Len(actions) \/ st.err.isErr THEN st
    ELSE IF rm.failAt = actions[i]
    THEN [st EXCEPT !.ran = Append(@, actions[i]), !.err = rm.phaseErr]
    ELSE Only({ RunFrom(actions, i + 1, next, req, rm) :
                  next \in {Step(actions[i], [st EXCEPT !.ran = Append(@, actions[i])],
                                 req, rm)} })

Run(req, rm) ==
    Only({ RunFrom(actions, 1, st, req, rm) :
             actions \in {Actions(req)}, st \in {StartState(req)} })

IsConnectionText(text) ==
    \/ ContainsLower(text, "websocket")
    \/ ContainsLower(text, "handshake")
    \/ ContainsLower(text, "connect")

\* contentTypeForFormat that answers image/png whatever the format
contentTypeForFormatPNG(format) == "image/png"

contentTypeForFormat(format) ==
    CASE ToLower(format) = "jpeg" -> "image/jpeg"
      [] ToLower(format) = "webp" -> "image/webp"
      [] OTHER -> "image/png"

\* c.JSON(status, gin.H{"error": error, "details": details})
Response(status, error, details, hasDetails) ==
    [status |-> status, error |-> error, details |-> details, hasDetails |-> hasDetails,
     state |-> "", contentType |-> "application/json", body |-> ""]

\* c.Data(http.StatusOK, contentType, img)
ImageResponse(contentType, img) ==
    [status |-> 200, error |-> "", details |-> <<>>, hasDetails |-> FALSE,
     state |-> "", contentType |-> contentType, body |-> img]

\* c.JSON(status, payload) of /health
HealthResponse(status, state, err) ==
    [status |-> status, error |-> "", details |-> err.text, hasDetails |-> err.isErr,
     state |-> state, contentType |-> "application/json", body |-> ""]

\* the response to a failed dial phase (part_000:692-711)
DialFailure(d) ==
    IF d.expired \/ d.err.deadline
    THEN Response(504, "chrome dial timeout", d.err.text, TRUE)
    ELSE IF IsConnectionText(d.err.text) \/ ContainsLower(d.err.text, "dial")
    THEN Response(502, "failed to connect chrome endpoint",
                  <<"dial failed: ">> \o d.err.text, TRUE)
    ELSE IF isTimeoutErr(d.err)
    THEN Response(504, "chrome dial timeout", d.err.text, TRUE)
    ELSE Response(502, "failed to connect chrome endpoint", d.err.text, TRUE)

\* the response to a failed main chromedp.Run (part_000:872-885)
RunFailure(err) ==
    IF isTimeoutErr(err)
    THEN Response(504, "screenshot timeout", err.text, TRUE)
    ELSE IF IsConnectionText(err.text)
    THEN Response(502, "failed to connect chrome endpoint", err.text, TRUE)
    ELSE Response(500, "failed to screenshot", err.text, TRUE)

\* the response to a failed endpoint resolution (part_000:661-673)
ResolveFailure(res) ==
    IF ~res.configured
    THEN Response(503, "browserless/chrome endpoint is not configured, set BROWSERLESS_HTTP_URL or CHROME_WS_ENDPOINT",
                  <<>>, FALSE)
    ELSE IF isTimeoutErr(res.err)
    THEN Response(504, "browserless endpoint timeout", res.err.text, TRUE)
    ELSE Response(502, "failed to resolve browserless websocket endpoint",
                  res.err.text, TRUE)

NoResp == Response(0, "", <<>>, FALSE)

NoRun ==
    [stage |-> "", calls |-> <<>>, wsURL |-> EmptyStr, configured |-> FALSE,
     resolveErr |-> NoErr, dialed |-> FALSE, pipe |-> StartState(ZeroRequest),
     acquired |-> <<>>, released |-> <<>>, writes |-> <<>>,
     clock |-> [overallDeadline |-> 0, dialStart |-> 0, dialDeadline |-> 0, dialEnd |-> 0]]

\* the contexts a handler has created, in order, when it returns at a stage:
\* overallCtx (part_000:657), allocCtx (677), taskCtx (680, the CDP session),
\* dialCtx (685); ctx of /health (901)
AcquiredAt(stage) ==
    CASE stage = "validate" -> <<>>
      [] stage = "resolve" -> <<"overallCtx">>
      [] stage \in {"dial", "run", "ok"} -> <<"overallCtx", "allocCtx", "taskCtx", "dialCtx">>
      [] stage = "health" -> <<"ctx">>

\* Deferred that leaves the context created last to its deadline
DeferredButLast(acquired) ==
    [i \in 1..(Len(acquired) - 1) |-> acquired[Len(acquired) - i]]

\* the deferred cancel functions, run last-in first-out at return
Deferred(acquired) ==
    [i \in 1..Len(acquired) |-> acquired[Len(acquired) + 1 - i]]

\* the handler returns at r.stage: its deferred calls run
Return(r) ==
    [r EXCEPT !.acquired = AcquiredAt(r.stage),
              !.released = Deferred(AcquiredAt(r.stage))]

\* screenshotHandler: [resp, norm, run]; run.stage names where the handler
\* returned
screenshotHandler(r, e, rm) ==
    Only({
        LET req == n.req
            resolved == [NoRun EXCEPT !.calls = res.calls, !.wsURL = res.ws,
                                      !.configured = res.configured,
                                      !.resolveErr = res.err,
                                      !.pipe = StartState(req)]
        IN  IF n.status # 0
            THEN [resp |-> Response(400, n.err, <<>>, FALSE), norm |-> n,
                  run |-> Return([NoRun EXCEPT !.stage = "validate"])]
            ELSE IF ~res.configured \/ res.err.isErr
            THEN [resp |-> ResolveFailure(res), norm |-> n,
                  run |-> Return([resolved EXCEPT !.stage = "resolve"])]
            ELSE IF rm.dial.err.isErr
            THEN [resp |-> DialFailure(rm.dial), norm |-> n,
                  run |-> Return([resolved EXCEPT !.stage = "dial", !.dialed = TRUE])]
            ELSE Only({
                    IF st.err.isErr
                    THEN [resp |-> RunFailure(st.err), norm |-> n,
                          run |-> Return([resolved EXCEPT !.stage = "run",
                                                          !.dialed = TRUE,
                                                          !.pipe = st])]
                    ELSE [resp |-> ImageResponse(contentTypeForFormat(req.Format), st.img),
                          norm |-> n,
                          run |-> Return([resolved EXCEPT !.stage = "ok",
                                                          !.dialed = TRUE,
                                                          !.pipe = st])] :
                    st \in {Run(n.req, rm)} }) :
        n \in {Normalize(r)},
        res \in {resolveWSEndpoint(e, rm)} })

\* the /health handler with the status left at 200
healthHandlerAlwaysOK(e, rm) ==
    Only({ [resp |-> HealthResponse(200, IF available THEN "ok" ELSE "degraded", res.err),
            norm |-> NoNorm,
            run |-> Return([NoRun EXCEPT !.stage = "health", !.calls = res.calls,
                                         !.wsURL = res.ws,
                                         !.configured = res.configured,
                                         !.resolveErr = res.err])] :
           res \in {resolveWSEndpoint(e, rm)},
           available \in {LET x == resolveWSEndpoint(e, rm)
                          IN  x.configured /\ ~x.err.isErr /\ x.ws # EmptyStr} })

\* the /health handler (part_000:899-927)
healthHandler(e, rm) ==
    Only({ [resp |-> HealthResponse(IF available THEN 200 ELSE 503,
                                    IF available THEN "ok" ELSE "degraded", res.err),
            norm |-> NoNorm,
            run |-> Return([NoRun EXCEPT !.stage = "health", !.calls = res.calls,
                                         !.wsURL = res.ws,
                                         !.configured = res.configured,
                                         !.resolveErr = res.err])] :
           res \in {resolveWSEndpoint(e, rm)},
           available \in {LET x == resolveWSEndpoint(e, rm)
                          IN  x.configured /\ ~x.err.isErr /\ x.ws # EmptyStr} })

(***************************************************************************)
(* The responses a handler writes: each c.JSON and c.Data on its path, in  *)
(* order, up to the return that ends it                                    *)
(***************************************************************************)
\* a stage that wrote response r and returned
Wrote(r) == [writes |-> <<r>>, returned |-> TRUE]
\* a stage that wrote nothing and went on
Passed == [writes |-> <<>>, returned |-> FALSE]

\* two stages in sequence with no return in between
ThenFallThrough(a, b) == [writes |-> a.writes \o b.writes, returned |-> b.returned]

\* two stages in sequence: the second runs unless the first returned
Then(a, b) ==
    IF a.returned THEN a
    ELSE [writes |-> a.writes \o b.writes, returned |-> b.returned]

\* part_000:632-642
WriteParse(n) == IF n.status # 0 THEN Wrote(Response(400, n.err, <<>>, FALSE)) ELSE Passed
\* part_000:660-673
WriteResolve(res) ==
    IF ~res.configured \/ res.err.isErr THEN Wrote(ResolveFailure(res)) ELSE Passed
\* part_000:688-711
WriteDial(d) == IF d.err.isErr THEN Wrote(DialFailure(d)) ELSE Passed
\* part_000:872-885
WriteRun(st) == IF st.err.isErr THEN Wrote(RunFailure(st.err)) ELSE Passed

\* the responses screenshotHandler writes
Written(r, e, rm) ==
    Only({ Then(WriteParse(n),
           Then(WriteResolve(res),
           Then(WriteDial(rm.dial),
           Then(WriteRun(st),
                Wrote(ImageResponse(contentTypeForFormat(n.req.Format), st.img)))))).writes :
           n \in {Normalize(r)},
           res \in {resolveWSEndpoint(e, rm)},
           st \in {Run(Normalize(r).req, rm)} })

\* the responses the /health handler writes: the one c.JSON at its end
WrittenHealth(e, rm) == <<healthHandler(e, rm).resp>>

(***************************************************************************)
(* Inputs of the normalization specification                               *)
(***************************************************************************)
\* at most this many request fields differ from the nominal request
MaxDeviations == 2

NominalRequest == [ZeroRequest EXCEPT !.URL = "https://example.com"]

FieldNames ==
    <<"URL", "Selector", "Width", "Height", "Format", "Quality", "Timeout",
      "DeviceScale", "WaitTime", "Clip">>

FieldValues(name) ==
    CASE name = "URL" -> {"", "http://exa mple.com", "/relative/path",
                          "ftp://example.com/", "HTTPS://example.com"}
      [] name = "Selector" -> {"#main"}
      [] name = "Width" -> {99, 100, 4096, 4097}
      [] name = "Height" -> {99, 100, 10000, 10001}
      [] name = "Format" -> {"png", "PNG", "Jpeg", "webp", "GIF"}
      [] name = "Quality" -> {-1, 1, 100, 101}
      [] name = "Timeout" -> {-1, 1, 120, 121}
      [] name = "DeviceScale" -> {F(-10), F(1), F(40), F(41), NaN}
      [] name = "WaitTime" -> {-1, 500}
      [] name = "Clip" -> {ClipOf(0, 0, 1, 1), ClipOf(0, 0, 0, 10), ClipOf(0, 0, 10, -1),
                           ClipOf(-1, 0, 10, 10), ClipOf(0, -1, 10, 0)}

\* pairs <<request, number of deviating fields>> over the first i fields
RECURSIVE Deviate(_)
Deviate(i) ==
    IF i = 0 THEN {<<NominalRequest, 0>>}
    ELSE UNION { {p} \cup
                 (IF p[2] < MaxDeviations
                  THEN { <<[p[1] EXCEPT ![FieldNames[i]] = v], p[2] + 1>> :
                            v \in FieldValues(FieldNames[i]) }
                  ELSE {}) : p \in Deviate(i - 1) }

Requests == { p[1] : p \in Deviate(Len(FieldNames)) }

\* the keys of the fields that differ from Go's zero value
NonZeroKeys(f) ==
    {k \in {"width", "height", "quality", "wait_time", "timeout", "device_scale", "format"} :
        CASE k = "width" -> f.Width # 0
          [] k = "height" -> f.Height # 0
          [] k = "quality" -> f.Quality # 0
          [] k = "wait_time" -> f.WaitTime # 0
          [] k = "timeout" -> f.Timeout # 0
          [] k = "device_scale" -> f.DeviceScale # F(0)
          [] k = "format" -> f.Format # ""}
    \cup (IF f.FullPage THEN {"full_page"} ELSE {})
    \cup (IF f.Mobile THEN {"mobile"} ELSE {})
    \cup (IF f.Landscape THEN {"landscape"} ELSE {})

AllKeys ==
    {"width", "height", "quality", "wait_time", "timeout", "device_scale", "format",
     "full_page", "mobile", "landscape"}

\* the requests a client can send: JSON carries neither NaN nor (over GET) a clip
RawRequests(fs) ==
    { [Method |-> m, given |-> g, bad |-> b, f |-> f] :
        m \in {"GET", "POST"}, f \in fs,
        g \in {{}, AllKeys}, b \in {{}, {"height", "timeout"}, {"device_scale"}, {"body"}} }

Sendable(r) ==
    /\ r.given \in {NonZeroKeys(r.f), AllKeys}
    /\ r.Method = "POST" => ~r.f.DeviceScale.nan /\ r.bad \in {{}, {"body"}}
    /\ r.Method = "GET" => r.bad # {"body"}
    /\ r.bad # {} => r.f = NominalRequest

(***************************************************************************)
(* Inputs of the handler specification                                     *)
(***************************************************************************)
ErrDeadline ==
    [isErr |-> TRUE, deadline |-> TRUE, canceled |-> FALSE,
     text |-> <<"context deadline exceeded">>]
ErrCanceled ==
    [isErr |-> TRUE, deadline |-> FALSE, canceled |-> TRUE, text |-> <<"context canceled">>]
ErrClosedCanceled == WrapErr("WebSocket closed", ErrCanceled)
ErrRefused == NewErr(<<"dial tcp: connect: connection refused">>)
\* net's cancellation error, for which errors.Is(err, context.Canceled) holds
ErrDialCanceled ==
    [isErr |-> TRUE, deadline |-> FALSE, canceled |-> TRUE,
     text |-> <<"dial tcp: operation was canceled">>]

OkWS(ws) == [kind |-> "ok", err |-> NoErr, body |-> "", ws |-> ws]
Transport(err) == [kind |-> "transport", err |-> err, body |-> "", ws |-> EmptyStr]
Status(body) == [kind |-> "status", err |-> NoErr, body |-> body, ws |-> EmptyStr]
BadJSON == [kind |-> "badjson", err |-> NoErr, body |-> "", ws |-> EmptyStr]
\* /json/list answers carry a sequence of targets
AsList(o, targets) == [o EXCEPT !.ws = targets]

AdvertisedBrowser == Str("ws", "0.0.0.0", "3000", "/devtools/browser/abc")
AdvertisedBare == Str("ws", "0.0.0.0", "3000", "")
AdvertisedNew == Str("ws", "0.0.0.0", "3000", "/devtools/page/P1")
AdvertisedListed == Str("ws", "0.0.0.0", "3000", "/devtools/page/P2")

NominalRemote ==
    [version |-> OkWS(AdvertisedBrowser),
     new |-> OkWS(AdvertisedNew),
     list |-> AsList(OkWS(EmptyStr), <<AdvertisedListed>>),
     created |-> 0,
     takes |-> [resolve |-> 0, dial |-> 0],
     dial |-> [expired |-> FALSE, err |-> NoErr],
     failAt |-> "none",
     phaseErr |-> NoErr,
     layout |-> [ok |-> TRUE, w |-> 19200, h |-> 24005],
     scroll |-> [ok |-> TRUE, h |-> 24000],
     rect |-> [X |-> 100, Y |-> 200, Width |-> 3000, Height |-> 1500],
     img |-> "IMG"]

VersionOutcomes ==
    {OkWS(AdvertisedBrowser), OkWS(AdvertisedBare), OkWS(EmptyStr),
     OkWS([AdvertisedBrowser EXCEPT !.pad = TRUE]),
     Transport(ErrDeadline), Transport(ErrRefused), Status("Internal Server Error"),
     Status("Deadline Exceeded"), BadJSON}
NewOutcomes ==
    {OkWS(AdvertisedNew), OkWS(AdvertisedBare), Transport(ErrDeadline), Status("Not Found")}
ListOutcomes ==
    {AsList(OkWS(EmptyStr), <<AdvertisedBare, AdvertisedListed>>),
     AsList(OkWS(EmptyStr), <<>>),
     AsList(Transport(ErrDeadline), <<>>),
     AsList(Status("Not Found"), <<>>)}

\* discovery varies; the fallbacks matter only when /json/version answers
\* without a devtools path
DiscoveryRemotes ==
    { [NominalRemote EXCEPT !.version = v, !.new = n, !.list = l] :
        v \in VersionOutcomes, n \in NewOutcomes, l \in ListOutcomes }

DialOutcomes ==
    {[expired |-> TRUE, err |-> ErrDeadline],
     [expired |-> TRUE, err |-> NewErr(<<"WebSocket closed">>)],
     [expired |-> FALSE, err |-> ErrDeadline],
     [expired |-> FALSE, err |-> ErrCanceled],
     [expired |-> FALSE, err |-> ErrClosedCanceled],
     [expired |-> FALSE, err |-> ErrDialCanceled],
     [expired |-> FALSE, err |-> NewErr(<<"Handshake failed">>)],
     [expired |-> FALSE, err |-> ErrRefused],
     [expired |-> FALSE, err |-> NewErr(<<"Deadline Exceeded">>)],
     [expired |-> FALSE, err |-> NewErr(<<"unexpected EOF">>)]}

DialRemotes == { [NominalRemote EXCEPT !.dial = d] : d \in DialOutcomes }

PhaseErrs ==
    {ErrDeadline, ErrCanceled, ErrClosedCanceled, ErrRefused,
     NewErr(<<"WebSocket closed">>), NewErr(<<"Handshake failed">>),
     NewErr(<<"dial tcp: no such host">>), NewErr(<<"Deadline Exceeded">>),
     NewErr(<<"net::ERR_NAME_NOT_RESOLVED">>)}

ActionNames ==
    {"network.Enable", "SetDeviceMetricsOverride", "SetUserAgentOverride",
     "SetExtraHTTPHeaders", "Navigate", "WaitReady", "WaitVisible(wait_for)", "Sleep",
     "AutoExpand", "ScrollIntoView", "WaitVisible(selector)", "MeasureSelector",
     "FullPageMetrics", "Capture"}

FailingRemotes ==
    { [NominalRemote EXCEPT !.failAt = a, !.phaseErr = e] :
        a \in ActionNames, e \in PhaseErrs }

MeasuringRemotes ==
    { [NominalRemote EXCEPT !.layout = l, !.scroll = sc, !.rect = rc] :
        l \in {[ok |-> TRUE, w |-> 19200, h |-> 24005],
               [ok |-> TRUE, w |-> 19200, h |-> 500000],
               [ok |-> TRUE, w |-> 19200, h |-> 6000],
               [ok |-> TRUE, w |-> 0, h |-> 0],
               [ok |-> FALSE, w |-> 0, h |-> 0]},
        sc \in {[ok |-> TRUE, h |-> 24000], [ok |-> TRUE, h |-> 0], [ok |-> FALSE, h |-> 0]},
        rc \in {[X |-> 100, Y |-> 200, Width |-> 3000, Height |-> 1500],
                [X |-> 100, Y |-> 200, Width |-> 0, Height |-> 1500],
                [X |-> 100, Y |-> 200, Width |-> 3000, Height |-> -10]} }

BrowserlessHTTP == Str("http", "browserless", "3000", "")
NominalEnv == [chromeWS |-> EmptyStr, httpSet |-> TRUE, httpURL |-> BrowserlessHTTP]

Envs ==
    { [chromeWS |-> c, httpSet |-> h[1], httpURL |-> h[2]] :
        c \in {EmptyStr, BlankStr,
               Str("ws", "chrome", "9222", "/devtools/browser/abc"),
               [Str("ws", "chrome", "9222", "/devtools/browser/abc") EXCEPT !.pad = TRUE],
               Str("wss", "chrome", "", "/proxy"),
               Str("ws", "chrome", "", ""),
               Str("http", "chrome", "9222", ""),
               GarbageStr},
        h \in {<<FALSE, EmptyStr>>, <<TRUE, EmptyStr>>, <<TRUE, BlankStr>>,
               <<TRUE, BrowserlessHTTP>>,
               <<TRUE, Str("https", "example.com", "8443", "/")>>,
               <<TRUE, Str("https", "example.com", "", "")>>,
               <<TRUE, Str("ftp", "example.com", "", "")>>,
               <<TRUE, Str("", "", "", "localhost")>>,
               <<TRUE, GarbageStr>>} }

Post(f) == [Method |-> "POST", given |-> NonZeroKeys(f), bad |-> {}, f |-> f]
Get(f) == [Method |-> "GET", given |-> NonZeroKeys(f), bad |-> {}, f |-> f]
NominalRaw == Post(NominalRequest)

HandlerRequests ==
    {NominalRaw,
     Get(NominalRequest),
     Post([NominalRequest EXCEPT !.Selector = "#main"]),
     Post([NominalRequest EXCEPT !.Selector = "#Connect-btn", !.Width = 800]),
     Post([NominalRequest EXCEPT !.Selector = "[title=\"Deadline Exceeded\"]",
                                 !.Height = 600]),
     Post([NominalRequest EXCEPT !.Mobile = TRUE, !.Landscape = TRUE,
                                 !.Width = 400, !.Height = 800]),
     Get([NominalRequest EXCEPT !.Format = "Jpeg", !.Quality = 80, !.FullPage = TRUE]),
     Post([NominalRequest EXCEPT !.Clip = ClipOf(0, 0, 1000, 1000), !.FullPage = TRUE]),
     Post([NominalRequest EXCEPT !.UserAgent = "UA/1.0", !.Headers = {"X-Test"},
                                 !.WaitFor = "#ready", !.WaitTime = 500]),
     Post([NominalRequest EXCEPT !.Selector = "#main", !.Format = "webp",
                                 !.Clip = ClipOf(0, 0, 1000, 1000), !.FullPage = TRUE,
                                 !.Mobile = TRUE, !.Landscape = TRUE]),
     Post([NominalRequest EXCEPT !.Clip = ClipOf(10, 20, 300, 400), !.Format = "jpeg"]),
     Post([NominalRequest EXCEPT !.Mobile = TRUE, !.Landscape = TRUE,
                                 !.Width = 4096, !.Height = 10000]),
     Post([NominalRequest EXCEPT !.Width = 99]),
     [Get(NominalRequest) EXCEPT !.bad = {"quality"}]}

Init ==
    /\ \/ raw = NominalRaw /\ env \in Envs /\ remote \in DiscoveryRemotes
       \/ raw \in HandlerRequests /\ env \in Envs /\ remote = NominalRemote
       \/ raw \in HandlerRequests /\ env = NominalEnv
          /\ remote \in DialRemotes \cup FailingRemotes \cup MeasuringRemotes
    /\ pc = "start"
    /\ route = ""
    /\ norm = NoNorm
    /\ resp = NoResp
    /\ run = NoRun

\* GET|POST /screenshot
HandleScreenshot ==
    /\ pc = "start"
    /\ \E out \in {screenshotHandler(raw, env, remote)} :
          /\ resp' = out.resp /\ norm' = out.norm
          /\ run' = [out.run EXCEPT !.writes = Written(raw, env, remote)]
          /\ remote' = AfterCalls(remote, out.run.calls)
    /\ route' = "screenshot"
    /\ pc' = "done"
    /\ UNCHANGED <<raw, env>>

\* GET /health
HandleHealth ==
    /\ pc = "start"
    /\ \E out \in {healthHandler(env, remote)} :
          /\ resp' = out.resp /\ norm' = out.norm
          /\ run' = [out.run EXCEPT !.writes = WrittenHealth(env, remote)]
          /\ remote' = AfterCalls(remote, out.run.calls)
    /\ route' = "health"
    /\ pc' = "done"
    /\ UNCHANGED <<raw, env>>

Next == HandleScreenshot \/ HandleHealth

Spec == Init /\ [][Next]_vars

(***************************************************************************)
(* Deadlines.  Time is in seconds from the creation of overallCtx;         *)
(* remote.takes says how long discovery and the dial-phase call take when  *)
(* nothing cuts them short.                                                *)
(***************************************************************************)
\* WithTimeout that takes no deadline from its parent
WithTimeoutDetached(parentDeadline, now, d) == now + d

\* the deadline of context.WithTimeout(parent, d) created at time now
WithTimeout(parentDeadline, now, d) ==
    IF now + d < parentDeadline THEN now + d ELSE parentDeadline

\* the deadlines of one request and the time its dial phase ends
\* (part_000:657, 685-692)
Clock(rm, req) ==
    Only({ [overallDeadline |-> overall,
            dialStart |-> rm.takes.resolve,
            dialDeadline |-> dl,
            dialEnd |-> IF rm.takes.resolve + rm.takes.dial < dl
                        THEN rm.takes.resolve + rm.takes.dial ELSE dl] :
           overall \in {req.Timeout},
           dl \in {WithTimeout(req.Timeout, rm.takes.resolve, remoteChromeDialTimeout)} })

\* the remote as a request with these deadlines meets it: discovery that
\* outlasts overallCtx and a dial that outlasts dialCtx end with the
\* context's deadline error
Timed(rm, req) ==
    IF rm.takes.resolve >= req.Timeout
    THEN [rm EXCEPT !.version = Transport(ErrDeadline)]
    ELSE IF Clock(rm, req).dialEnd >= Clock(rm, req).dialDeadline
    THEN [rm EXCEPT !.dial = [expired |-> TRUE, err |-> ErrDeadline]]
    ELSE rm

Timeouts == {0, 1, 10, 29, 30, 31, 60, 120, 121}
ResolveTimes == {0, 1, 5, 29, 40}
DialTimes == {0, 1, 20, 29, 30, 31, 119, 200}

InitDeadline ==
    /\ raw \in {Post([NominalRequest EXCEPT !.Timeout = t]) : t \in Timeouts}
    /\ env = NominalEnv
    /\ remote \in {[NominalRemote EXCEPT !.takes = [resolve |-> a, dial |-> b]] :
                      a \in ResolveTimes, b \in DialTimes}
    /\ pc = "start"
    /\ route = ""
    /\ norm = NoNorm
    /\ resp = NoResp
    /\ run = NoRun

\* POST /screenshot against a remote that answers after remote.takes
HandleScreenshotTimed ==
    /\ pc = "start"
    /\ \E n \in {Normalize(raw)} :
          \E rm \in {IF n.status = 0 THEN Timed(remote, n.req) ELSE remote} :
             \E out \in {screenshotHandler(raw, env, rm)} :
                /\ resp' = out.resp
                /\ norm' = out.norm
                /\ run' = IF n.status = 0
                          THEN [out.run EXCEPT !.clock = Clock(remote, n.req)]
                          ELSE out.run
                /\ remote' = AfterCalls(rm, out.run.calls)
    /\ route' = "screenshot"
    /\ pc' = "done"
    /\ UNCHANGED <<raw, env>>

NextDeadline == HandleScreenshotTimed

SpecDeadline == InitDeadline /\ [][NextDeadline]_vars

\* the configurations and remotes of two successive resolutions
InitResolve ==
    /\ raw = NominalRaw
    /\ env \in Envs
    /\ remote \in DiscoveryRemotes
    /\ pc = "start"
    /\ route = ""
    /\ norm = NoNorm
    /\ resp = NoResp
    /\ run = NoRun

\* GET /health, polled a first and a second time: each poll resolves the
\* endpoint anew
PollHealth ==
    /\ pc \in {"start", "done"}
    /\ LET out == healthHandler(env, remote)
       IN  /\ resp' = out.resp /\ norm' = out.norm /\ run' = out.run
           /\ remote' = AfterCalls(remote, out.run.calls)
    /\ route' = "health"
    /\ pc' = IF pc = "start" THEN "done" ELSE "again"
    /\ UNCHANGED <<raw, env>>

NextResolve == PollHealth

SpecResolve == InitResolve /\ [][NextResolve]_vars

IdleEnv == [chromeWS |-> EmptyStr, httpSet |-> FALSE, httpURL |-> EmptyStr]

InitValidate ==
    /\ raw \in {r \in RawRequests(Requests) : Sendable(r)}
    /\ env = IdleEnv
    /\ remote = NominalRemote
    /\ pc = "start"
    /\ route = ""
    /\ norm = NoNorm
    /\ resp = NoResp
    /\ run = NoRun

\* parseRequest, applyDefaults and validate applied to the inbound request
NormalizeRequest ==
    /\ pc = "start"
    /\ norm' = Normalize(raw)
    /\ route' = "normalize"
    /\ pc' = "done"
    /\ UNCHANGED <<raw, env, remote, resp, run>>

NextValidate == NormalizeRequest

SpecValidate == InitValidate /\ [][NextValidate]_vars

(***************************************************************************)
(* Claims on request normalization (SpecValidate)                          *)
(***************************************************************************)
Normalized == route = "normalize" /\ pc = "done"
Parsed == Normalized /\ parseRequest(raw).err = ""
HeightUnsetNoSelector == raw.f.Height = 0 /\ raw.f.Selector = ""

\* the rules of validation, in the order the interface fixes
RuleMsgs ==
    <<MsgURLRequired, MsgURLInvalid, MsgWidth, MsgHeight, MsgFormat, MsgQuality,
      MsgTimeout, MsgDeviceScale, MsgWaitTime, MsgClipSize, MsgClipXY>>

RuleViolated(i, r) ==
    CASE i = 1 -> r.URL = ""
      [] i = 2 -> ~ParseRequestURI(r.URL).ok
                  \/ ParseRequestURI(r.URL).Scheme \notin {"http", "https"}
      [] i = 3 -> r.Width \notin 100..4096
      [] i = 4 -> IF r.Height = 0 THEN r.Selector = "" ELSE r.Height \notin 100..10000
      [] i = 5 -> ToLower(r.Format) \notin {"png", "jpeg", "webp"}
      [] i = 6 -> r.Quality \notin 1..100
      [] i = 7 -> r.Timeout \notin 1..120
      [] i = 8 -> FLe(r.DeviceScale, F(0)) \/ FGt(r.DeviceScale, F(40))
      [] i = 9 -> r.WaitTime < 0
      [] i = 10 -> r.Clip.present /\ (r.Clip.Width <= 0 \/ r.Clip.Height <= 0)
      [] i = 11 -> r.Clip.present /\ (r.Clip.X < 0 \/ r.Clip.Y < 0)

ViolatedRules(r) == {i \in DOMAIN RuleMsgs : RuleViolated(i, r)}
FirstViolated(r) == CHOOSE i \in ViolatedRules(r) : \A j \in ViolatedRules(r) : i <= j

\* the request validation is run on: the parsed request after defaulting
Defaulted == applyDefaults(parseRequest(raw).req)

\* C8 (as stated): every request with height unset (zero) and selector empty
\* is rejected by normalization with the height range-error message.
C8_AsStated ==
    (Parsed /\ HeightUnsetNoSelector /\ ViolatedRules(Defaulted) \subseteq {4}) =>
        (norm.status = 400 /\ norm.err = MsgHeight)

\* C8 (amended): for a request with height unset and selector empty,
\* normalization defaults the height to 1080 and never reports the height
\* range error; after a successful normalization the height is still unset
\* (zero) exactly when it was sent unset together with a selector.
C8_HeightDefaulted ==
    Parsed =>
        /\ HeightUnsetNoSelector =>
              (norm.err # MsgHeight /\ (norm.status = 0 => norm.req.Height = 1080))
        /\ norm.status = 0 =>
              (norm.req.Height = 0 <=> (raw.f.Height = 0 /\ raw.f.Selector # ""))

C8_Witness ==
    Parsed /\ HeightUnsetNoSelector /\ norm.status = 0 /\ norm.req.Height = 1080

InRanges(r) ==
    /\ r.Width \in 100..4096
    /\ r.Height \in 100..10000 \/ (r.Height = 0 /\ r.Selector # "")
    /\ r.Format \in {"png", "jpeg", "webp"}
    /\ r.Quality \in 1..100
    /\ ~r.DeviceScale.nan /\ r.DeviceScale.v > 0 /\ r.DeviceScale.v <= 40
    /\ r.Timeout \in 1..120
    /\ r.WaitTime >= 0
    /\ r.Clip.present =>
          (r.Clip.Width > 0 /\ r.Clip.Height > 0 /\ r.Clip.X >= 0 /\ r.Clip.Y >= 0)

\* C10: every request that passes defaulting and validation has width in
\* [100,4096], height in [100,10000] or zero with a selector, a lower-case
\* format among png/jpeg/webp, quality in [1,100], device scale in (0,4],
\* timeout in [1,120], wait time >= 0 and a well-formed clip if any.
C10_AcceptedInRanges ==
    (Normalized /\ norm.status = 0) => InRanges(norm.req)

(***************************************************************************)
(* Claims on the handlers (Spec)                                           *)
(***************************************************************************)
Screenshot == pc = "done" /\ route = "screenshot"
Health == pc = "done" /\ route = "health"

NotConfiguredMsg ==
    "browserless/chrome endpoint is not configured, set BROWSERLESS_HTTP_URL or CHROME_WS_ENDPOINT"

\* nothing supplied to the process: neither variable is set
NothingSupplied == env.chromeWS = EmptyStr /\ ~env.httpSet
\* BROWSERLESS_HTTP_URL supplied, but empty or blank, and no direct endpoint
SuppliedEmpty ==
    /\ env.chromeWS \in {EmptyStr, BlankStr}
    /\ env.httpSet
    /\ env.httpURL \in {EmptyStr, BlankStr}

RunFailed == Screenshot /\ run.stage = "run"
TimeoutClassified(err) ==
    err.deadline \/ err.canceled \/ ContainsLower(err.text, "deadline exceeded")
HasAnyWord(text, words) == \E w \in words : ContainsLower(text, w)

\* C2: a failure after Dial is answered 504 when Timeout-classified, otherwise
\* 502 when its text contains "websocket", "handshake", "connect" or "dial"
\* (case-insensitive), otherwise 500.
C2_AsStated ==
    RunFailed =>
        resp.status =
            IF TimeoutClassified(run.pipe.err) THEN 504
            ELSE IF HasAnyWord(run.pipe.err.text,
                               {"websocket", "handshake", "connect", "dial"}) THEN 502
            ELSE 500

\* the selector capture measured a box of zero or negative width or height
EmptyBox ==
    /\ RunFailed
    /\ norm.req.Selector # ""
    /\ run.pipe.ran[Len(run.pipe.ran)] = "MeasureSelector"
    /\ remote.failAt # "MeasureSelector"
    /\ remote.rect.Width <= 0 \/ remote.rect.Height <= 0

\* C3: when the selector resolves to a zero-area element the request ends
\* with HTTP 500, for every selector string, and the details contain the
\* selector text.
C3_AsStated ==
    EmptyBox =>
        /\ resp.status = 500
        /\ \E i \in DOMAIN resp.details : resp.details[i] = norm.req.Selector

\* the error a failed request surfaces, by the stage that failed
Underlying ==
    CASE run.stage = "resolve" -> run.resolveErr
      [] run.stage = "dial" -> remote.dial.err
      [] run.stage = "run" -> run.pipe.err
      [] OTHER -> NoErr

\* C4: for every failure of endpoint resolution, Dial or a later phase the
\* "details" field is exactly the text of the underlying error.
C4_AsStated ==
    (Screenshot /\ run.stage \in {"resolve", "dial", "run"} /\ run.configured) =>
        (resp.hasDetails /\ resp.details = Underlying.text)

\* the outcome the remote gave to a discovery call that was made
OutcomeOf(call) ==
    CASE call.req = "GET /json/version" -> remote.version
      [] call.req = "PUT /json/new" -> remote.new
      [] call.req = "GET /json/list" -> remote.list

\* some discovery call of this request ended in a Timeout-classified failure
TimeoutDuringDiscovery ==
    \E i \in DOMAIN run.calls :
        LET o == OutcomeOf(run.calls[i])
        IN  \/ o.kind = "transport" /\ TimeoutClassified(o.err)
            \/ o.kind = "status" /\ ContainsLower(<<o.body>>, "deadline exceeded")

\* C5: a failed resolution of a configured endpoint is answered 504 if a
\* discovery call (/json/version or the /json/new, /json/list fallbacks) met
\* the deadline or a cancellation, and 502 otherwise.
C5_AsStated ==
    (Screenshot /\ run.stage = "resolve" /\ run.configured) =>
        resp.status = IF TimeoutDuringDiscovery THEN 504 ELSE 502

\* C6: a Dial failure is answered 504 when Timeout-classified and 502
\* otherwise, as a resolution failure is; never 500 or 200.
C6_AsStated ==
    (Screenshot /\ run.stage = "dial") =>
        resp.status =
            IF remote.dial.expired \/ TimeoutClassified(remote.dial.err) THEN 504 ELSE 502

\* C7: /health answers 200 with status "ok" exactly when an endpoint is
\* configured and resolution returned a non-empty WebSocket URL without
\* error; in every other case 503 with status "degraded".
C7_HealthStatus ==
    Health =>
        IF run.configured /\ ~run.resolveErr.isErr /\ run.wsURL # EmptyStr
        THEN resp.status = 200 /\ resp.state = "ok"
        ELSE resp.status = 503 /\ resp.state = "degraded"

C7_Witness ==
    Health /\ run.configured /\ run.calls # <<>> /\ run.wsURL # EmptyStr
    /\ resp.status = 200 /\ resp.state = "ok"

(***************************************************************************)
(* Claims on the viewport, the response and the two request encodings      *)
(***************************************************************************)
\* the device metrics the Configure phase sent to the browser
Configured == Screenshot /\ run.dialed /\ Len(run.pipe.metrics) >= 1
BothFlags == norm.req.Mobile /\ norm.req.Landscape
\* the height the page is loaded with: the request's, or the default when a
\* selector capture left it unset
LoadHeight == IF norm.req.Height = 0 THEN defaultHeight ELSE norm.req.Height

\* C11 (as stated): with mobile and landscape both set the viewport committed
\* in the Configure phase is (request height, request width).
C11_AsStated ==
    (Configured /\ BothFlags) =>
        /\ run.pipe.metrics[1].width = norm.req.Height
        /\ run.pipe.metrics[1].height = norm.req.Width

\* C11 (amended): with mobile and landscape both set the committed viewport
\* is (load height, request width), the load height being the request's
\* height or 1080 when a selector capture left it unset; without both flags
\* it is (request width, load height); the swap happens once: a later
\* auto-expand resends the same committed width.
C11_SwappedOnce ==
    Configured =>
        /\ IF BothFlags
           THEN /\ run.pipe.metrics[1].width = LoadHeight
                /\ run.pipe.metrics[1].height = norm.req.Width
           ELSE /\ run.pipe.metrics[1].width = norm.req.Width
                /\ run.pipe.metrics[1].height = LoadHeight
        /\ \A i \in DOMAIN run.pipe.metrics :
              run.pipe.metrics[i].width = run.pipe.metrics[1].width

C11_Witness ==
    /\ Configured /\ BothFlags /\ run.stage = "ok"
    /\ norm.req.Height = 0
    /\ Len(run.pipe.metrics) = 2
    /\ run.pipe.metrics[1].width = defaultHeight
    /\ run.pipe.metrics[1].height = norm.req.Width
    /\ norm.req.Width # defaultHeight

\* validation, resolution, Dial and every action of the pipeline succeeded
AllSucceeded ==
    /\ norm.status = 0
    /\ run.configured /\ ~run.resolveErr.isErr
    /\ run.dialed /\ ~remote.dial.err.isErr
    /\ ~run.pipe.err.isErr
    /\ run.pipe.ran = Actions(norm.req)
    /\ run.pipe.capture.issued

\* the media type of a format given in any letter case; png when not given
MediaType(format) ==
    CASE format \in {"jpeg", "Jpeg"} -> "image/jpeg"
      [] format = "webp" -> "image/webp"
      [] format \in {"", "png", "PNG"} -> "image/png"

\* C12: /screenshot answers 200 if and only if validation, resolution, Dial
\* and every later phase including Capture succeeded; the body is then the
\* bytes the Capture call returned and the Content-Type is the image type of
\* the request's case-folded format.
C12_OkIffAllSucceeded ==
    Screenshot =>
        /\ resp.status = 200 <=> AllSucceeded
        /\ resp.status = 200 =>
              /\ resp.body = remote.img
              /\ resp.body = run.pipe.img
              /\ resp.contentType = MediaType(raw.f.Format)
        /\ resp.status # 200 => resp.contentType = "application/json"

C12_Witness ==
    /\ Screenshot /\ AllSucceeded /\ resp.status = 200
    /\ raw.f.Format = "Jpeg" /\ resp.contentType = "image/jpeg"
    /\ resp.body = "IMG"

\* the same field values sent as a JSON body instead of query parameters
AsPost(r) == [r EXCEPT !.Method = "POST"]
\* a well-formed GET request whose field values JSON can carry too
GetOfSharedFields ==
    /\ Normalized
    /\ raw.Method = "GET" /\ raw.bad = {}
    /\ ~raw.f.DeviceScale.nan

\* C13: for every assignment of values to the request fields, the clip
\* rectangle included, the canonical request and the validation outcome of
\* the GET query string equal those of the POST JSON body.
C13_AsStated ==
    GetOfSharedFields =>
        /\ norm.req = Normalize(AsPost(raw)).req
        /\ norm.status = Normalize(AsPost(raw)).status
        /\ norm.err = Normalize(AsPost(raw)).err

(***************************************************************************)
(* Claims on endpoint resolution (Spec)                                    *)
(***************************************************************************)
\* a handler returned after sending at least one discovery call
Discovered == pc = "done" /\ route \in {"screenshot", "health"} /\ run.calls # <<>>
\* the requests of the discovery calls, in the order they were sent
CallsSent == [i \in DOMAIN run.calls |-> run.calls[i].req]

\* the paths of the model that begin with /devtools/
DevToolsPaths ==
    {"/devtools/browser/abc", "/devtools/browser/new1", "/devtools/page/P1",
     "/devtools/page/P2", "/devtools/page/P3", "/devtools/page/P4"}
\* an advertised webSocketDebuggerUrl that can be used as it stands
Usable(ws) ==
    ws.ok /\ ws.Scheme # "" /\ ws.Hostname # "" /\ ws.Path \in DevToolsPaths
VersionLacksPath ==
    /\ remote.version.kind = "ok"
    /\ ~(remote.version.ws.ok /\ remote.version.ws.Path \in DevToolsPaths)
NewUsable == remote.new.kind = "ok" /\ Usable(remote.new.ws)
ListUsable ==
    remote.list.kind = "ok" /\ \E i \in DOMAIN remote.list.ws : Usable(remote.list.ws[i])

\* C14: when /json/version answers with a webSocketDebuggerUrl that lacks the
\* /devtools/ path, PUT /json/new is sent next and GET /json/list only if
\* /json/new gave no usable URL; resolution fails only after both fallbacks
\* were sent and failed, and a usable /json/new keeps /json/list from being
\* called.
C14_FallbackOrder ==
    (Discovered /\ VersionLacksPath) =>
        /\ CallsSent = IF NewUsable
                       THEN <<"GET /json/version", "PUT /json/new">>
                       ELSE <<"GET /json/version", "PUT /json/new", "GET /json/list">>
        /\ \A i \in DOMAIN run.calls : run.calls[i].base = run.calls[1].base
        /\ run.resolveErr.isErr <=> (~NewUsable /\ ~ListUsable)
        /\ NewUsable => run.wsURL.Path = remote.new.ws.Path
        /\ (~NewUsable /\ ListUsable) =>
              \E i \in DOMAIN remote.list.ws :
                  /\ Usable(remote.list.ws[i])
                  /\ run.wsURL.Path = remote.list.ws[i].Path

C14_Witness ==
    /\ Discovered /\ VersionLacksPath /\ ~NewUsable /\ ListUsable
    /\ CallsSent = <<"GET /json/version", "PUT /json/new", "GET /json/list">>
    /\ ~run.resolveErr.isErr
    /\ run.wsURL.Path = "/devtools/page/P2"

\* the control-plane base the discovery calls were sent to
BaseUsed == run.calls[1].base
\* the advertised URL the resolver took, by the route it went
Discovery ==
    IF Len(run.calls) = 1 THEN {remote.version.ws}
    ELSE IF Len(run.calls) = 2 THEN {remote.new.ws}
    ELSE {remote.list.ws[i] : i \in DOMAIN remote.list.ws}
Resolved == Discovered /\ ~run.resolveErr.isErr

\* C15: the resolved URL has scheme ws for an http base and wss for an https
\* base, the base's host and port (80 for http, 443 for https when the base
\* has none) and the path of the discovered URL.
C15_Rewrite ==
    Resolved =>
        /\ BaseUsed.Scheme \in {"http", "https"}
        /\ run.wsURL.Scheme = (IF BaseUsed.Scheme = "http" THEN "ws" ELSE "wss")
        /\ run.wsURL.Hostname = BaseUsed.Hostname
        /\ run.wsURL.Port = (IF BaseUsed.Port # "" THEN BaseUsed.Port
                             ELSE IF BaseUsed.Scheme = "http" THEN "80" ELSE "443")
        /\ \E d \in Discovery : Usable(d) /\ run.wsURL.Path = d.Path

\* ws://0.0.0.0:3000/devtools/browser/abc found through
\* https://example.com:8443 resolves to
\* wss://example.com:8443/devtools/browser/abc
C15_Witness ==
    /\ Resolved
    /\ BaseUsed.Scheme = "https" /\ BaseUsed.Hostname = "example.com"
    /\ BaseUsed.Port = "8443"
    /\ remote.version.ws = Str("ws", "0.0.0.0", "3000", "/devtools/browser/abc")
    /\ run.wsURL = Str("wss", "example.com", "8443", "/devtools/browser/abc")

\* C16: two successive resolutions of the same configuration yield the same
\* authority and the same path, whichever discovery route the resolver takes.
C16_AsStated ==
    [][(/\ pc = "done" /\ pc' = "again"
        /\ run.configured /\ ~run.resolveErr.isErr /\ ~run'.resolveErr.isErr)
       => /\ run'.wsURL.Hostname = run.wsURL.Hostname
          /\ run'.wsURL.Port = run.wsURL.Port
          /\ run'.wsURL.Path = run.wsURL.Path]_vars

(***************************************************************************)
(* Claims on the capture pipeline (Spec)                                   *)
(***************************************************************************)
\* the content height the page reported, in tenths of a pixel: the layout
\* metric when it is positive, the script's answer otherwise
MeasuredHeight ==
    IF remote.layout.ok /\ remote.layout.h > 0 THEN remote.layout.h ELSE remote.scroll.h
\* the auto-expand phase ran and measured a positive height
AutoExpanded ==
    /\ Screenshot /\ run.dialed
    /\ \E i \in DOMAIN run.pipe.ran : run.pipe.ran[i] = "AutoExpand"
    /\ remote.failAt # "AutoExpand"
    /\ (remote.layout.ok /\ remote.layout.h > 0) \/ remote.scroll.ok
    /\ MeasuredHeight > 0
\* the viewport height before the phase
HeightBefore == IF BothFlags THEN norm.req.Width ELSE LoadHeight

\* C17: auto-expand leaves the viewport height at
\* min(max(ceil(measured height), height before), 30000); a measured 50000
\* with height 1080 gives 30000.
C17_AutoExpandClamp ==
    AutoExpanded =>
        /\ IF MeasuredHeight > 10 * maxAutoViewportHeight
           THEN run.pipe.viewportHeight = maxAutoViewportHeight
           ELSE IF MeasuredHeight <= 10 * HeightBefore
           THEN run.pipe.viewportHeight = HeightBefore
           ELSE /\ 10 * run.pipe.viewportHeight >= MeasuredHeight
                /\ 10 * (run.pipe.viewportHeight - 1) < MeasuredHeight
        /\ run.pipe.viewportHeight # HeightBefore =>
              run.pipe.metrics[Len(run.pipe.metrics)].height = run.pipe.viewportHeight

C17_Witness ==
    /\ AutoExpanded /\ run.stage = "ok"
    /\ MeasuredHeight = 500000 /\ HeightBefore = 1080
    /\ run.pipe.viewportHeight = 30000
    /\ run.pipe.metrics[2].height = 30000

\* resolution failed after sending discovery calls
DiscoveryFailed == Discovered /\ run.resolveErr.isErr
\* the error of the discovery call that was sent last
LastCallError ==
    IF Len(run.calls) = 1 THEN CallError(remote.version, "browserless /json/version")
    ELSE IF Len(run.calls) = 2 THEN resolveWSEndpointViaJSONNew(remote, BaseUsed).err
    ELSE resolveWSEndpointViaJSONList(remote, BaseUsed).err
\* the message built at part_000:555-557
ExhaustedMsg ==
    <<"browserless /json/version returned non-devtools ws", "(advertised ws)",
      "and fallbacks (/json/new,/json/list) failed">>

DirectConfigured ==
    /\ pc = "done"
    /\ route = "health" \/ (route = "screenshot" /\ norm.status = 0)
    /\ TrimSpace(env.chromeWS) # EmptyStr
\* the HTTP base a bare ws/wss endpoint stands for
DirectBase ==
    Str(IF env.chromeWS.Scheme = "wss" THEN "https" ELSE "http",
        env.chromeWS.Hostname, env.chromeWS.Port, env.chromeWS.Path)

\* C19: when CHROME_WS_ENDPOINT is set, the HTTP control-plane address
\* (BROWSERLESS_HTTP_URL or its default) is never used for resolution: every
\* discovery call goes to the direct endpoint's own host, a full endpoint is
\* used as it is, and a malformed one or a failed discovery ends the
\* resolution with an error instead of turning to the HTTP address.
C19_DirectPriority ==
    DirectConfigured =>
        /\ run.configured
        /\ \A i \in DOMAIN run.calls : run.calls[i].base = DirectBase
        /\ run.calls = <<>> =>
              \/ ~run.resolveErr.isErr /\ run.wsURL = [env.chromeWS EXCEPT !.pad = FALSE]
              \/ /\ run.resolveErr.isErr
                 /\ run.resolveErr.text[1] = "invalid CHROME_WS_ENDPOINT"
        /\ (run.calls # <<>> /\ ~run.resolveErr.isErr) =>
              /\ run.wsURL.Hostname = env.chromeWS.Hostname
              /\ run.wsURL.Scheme = env.chromeWS.Scheme

C19_Witness ==
    /\ DirectConfigured
    /\ env.chromeWS = GarbageStr
    /\ env.httpSet /\ env.httpURL = BrowserlessHTTP
    /\ remote.version = OkWS(AdvertisedBrowser)
    /\ run.calls = <<>>
    /\ run.resolveErr.isErr
    /\ resp.status \in {502, 503}

\* the place of each CDP call in the order Configure, Navigate, WaitFor,
\* Settle, AutoExpand, ResolveClip, Capture
PhaseRank(name) ==
    CASE name = "network.Enable" -> 1
      [] name = "SetDeviceMetricsOverride" -> 2
      [] name = "SetUserAgentOverride" -> 3
      [] name = "SetExtraHTTPHeaders" -> 4
      [] name = "Navigate" -> 5
      [] name = "WaitReady" -> 6
      [] name = "WaitVisible(wait_for)" -> 7
      [] name = "Sleep" -> 8
      [] name = "AutoExpand" -> 9
      [] name = "ScrollIntoView" -> 10
      [] name = "WaitVisible(selector)" -> 11
      [] name = "MeasureSelector" -> 12
      [] name = "FullPageMetrics" -> 12
      [] name = "Capture" -> 13
\* the CDP calls the request started, in the order it started them
Started == run.pipe.ran
Requested(name) ==
    CASE name = "SetUserAgentOverride" -> norm.req.UserAgent # ""
      [] name = "SetExtraHTTPHeaders" -> norm.req.Headers # {}
      [] name = "WaitVisible(wait_for)" -> norm.req.WaitFor # ""
      [] name = "Sleep" -> norm.req.WaitTime > 0
      [] name = "AutoExpand" -> norm.req.Selector # "" /\ norm.req.Height = 0
      [] name \in {"ScrollIntoView", "WaitVisible(selector)", "MeasureSelector"} ->
            norm.req.Selector # ""
      [] name = "FullPageMetrics" ->
            norm.req.Selector = "" /\ norm.req.FullPage /\ ~norm.req.Clip.present
      [] OTHER -> TRUE

\* C20: the phases run in the order Dial, Configure (network enable, device
\* metrics, optional user agent, optional headers), Navigate, optional
\* WaitFor, optional Settle, optional AutoExpand, ResolveClip, Capture, each
\* at most once; after a phase fails no later phase is started, so Capture is
\* issued only if every earlier phase succeeded.
C20_PhaseOrder ==
    Screenshot =>
        /\ Started # <<>> => (run.dialed /\ ~remote.dial.err.isErr)
        /\ run.stage \in {"validate", "resolve", "dial"} =>
              (Started = <<>> /\ ~run.pipe.capture.issued)
        /\ \A i, j \in DOMAIN Started :
              i < j => PhaseRank(Started[i]) < PhaseRank(Started[j])
        /\ \A i \in DOMAIN Started : Requested(Started[i])
        /\ \A i \in DOMAIN Started :
              \A name \in ActionNames :
                  (PhaseRank(name) < PhaseRank(Started[i]) /\ Requested(name)) =>
                      \E j \in 1..(i - 1) : Started[j] = name
        /\ remote.failAt \in {Started[i] : i \in DOMAIN Started} =>
              /\ Started[Len(Started)] = remote.failAt
              /\ run.stage = "run"
        /\ run.stage = "run" => ~run.pipe.capture.issued
        /\ run.pipe.capture.issued =>
              (Started[Len(Started)] = "Capture" /\ ~run.pipe.err.isErr)

C20_Witness ==
    /\ Screenshot /\ run.stage = "run"
    /\ remote.failAt = "Navigate"
    /\ norm.req.UserAgent # "" /\ norm.req.Headers # {}
    /\ Started = <<"network.Enable", "SetDeviceMetricsOverride", "SetUserAgentOverride",
                   "SetExtraHTTPHeaders", "Navigate">>
    /\ ~run.pipe.capture.issued

(***************************************************************************)
(* Claims on contexts, deadlines and concurrency                           *)
(***************************************************************************)
\* the elements of a sequence
Elems(seq) == {seq[i] : i \in DOMAIN seq}
\* the contexts a request holds once its handler has returned
StillHeld == Elems(run.acquired) \ Elems(run.released)

\* C21: every CDP session and every derived context (overall, allocator,
\* task, dial) acquired while handling a request is released when the handler
\* returns, on success, dial failure, phase failure and deadline expiry; a
\* request that ends in validation, "not configured" or resolution failure
\* never acquires a session.
C21_Released ==
    Screenshot =>
        /\ StillHeld = {}
        /\ Len(run.released) = Len(run.acquired)
        /\ run.dialed =>
              Elems(run.acquired) = {"overallCtx", "allocCtx", "taskCtx", "dialCtx"}
        /\ ~run.dialed =>
              /\ run.stage \in {"validate", "resolve"}
              /\ Elems(run.acquired) \cap {"allocCtx", "taskCtx", "dialCtx"} = {}
        /\ resp.status \in {400, 503} => "taskCtx" \notin Elems(run.acquired)

C21_Witness ==
    /\ Screenshot /\ run.stage = "run"
    /\ run.pipe.err = ErrDeadline
    /\ run.acquired = <<"overallCtx", "allocCtx", "taskCtx", "dialCtx">>
    /\ run.released = <<"dialCtx", "taskCtx", "allocCtx", "overallCtx">>

\* the dial phase of a valid request was entered
DialEntered == Screenshot /\ norm.status = 0 /\ run.dialed
\* the deadline the dial phase would have on its own
OwnDialDeadline == run.clock.dialStart + remoteChromeDialTimeout

\* C22 (as stated): for every valid timeout the dial phase has its own fixed
\* deadline, shorter than the request's overall deadline, and ends no later
\* than the earlier of the two.
C22_AsStated ==
    DialEntered =>
        /\ remoteChromeDialTimeout < norm.req.Timeout
        /\ OwnDialDeadline < run.clock.overallDeadline
        /\ run.clock.dialEnd <= OwnDialDeadline
        /\ run.clock.dialEnd <= run.clock.overallDeadline

\* C22 (amended): the dial phase has a fixed deadline of 30 seconds from its
\* start, nested inside the overall deadline: it ends no later than the
\* earlier of the two and never after the overall deadline, and a dial cut
\* short by either is answered 504.  The dial deadline is the earlier one
\* only when more than 30 seconds of the request's budget are left at the
\* start of the dial; for a timeout of 30 seconds or less (the default 30
\* included) the overall deadline is the one that ends the dial.
C22_DialBounded ==
    DialEntered =>
        /\ run.clock.overallDeadline = norm.req.Timeout
        /\ run.clock.dialStart < run.clock.overallDeadline
        /\ run.clock.dialDeadline <= OwnDialDeadline
        /\ run.clock.dialDeadline <= run.clock.overallDeadline
        /\ run.clock.dialDeadline \in {OwnDialDeadline, run.clock.overallDeadline}
        /\ run.clock.dialEnd <= run.clock.dialDeadline
        /\ norm.req.Timeout <= remoteChromeDialTimeout =>
              run.clock.dialDeadline = run.clock.overallDeadline
        /\ run.clock.dialEnd = run.clock.dialDeadline =>
              (remote.dial.expired /\ resp.status = 504 /\ run.stage = "dial")
        /\ run.clock.dialEnd < run.clock.dialDeadline => run.stage = "ok"

C22_Witness ==
    /\ DialEntered
    /\ norm.req.Timeout = 10
    /\ run.clock.dialStart = 1
    /\ remote.takes.dial = 20
    /\ run.clock.dialEnd = 10
    /\ resp.status = 504

\* CHROME_WS_ENDPOINT holds a URL whose path begins with /devtools/browser/
FullDirect ==
    /\ pc = "done"
    /\ route = "health" \/ (route = "screenshot" /\ norm.status = 0)
    /\ env.chromeWS.ok
    /\ env.chromeWS.Path \in {"/devtools/browser/abc", "/devtools/browser/new1"}

\* C23: a configured direct endpoint whose path begins with
\* /devtools/browser/ is returned exactly as configured (white space around
\* the value removed) and no discovery request is sent, for /screenshot and
\* for /health.
C23_Verbatim ==
    FullDirect =>
        /\ run.calls = <<>>
        /\ run.configured /\ ~run.resolveErr.isErr
        /\ run.wsURL = [env.chromeWS EXCEPT !.pad = FALSE]
        /\ remote.created = 0
        /\ route = "health" => (resp.status = 200 /\ resp.state = "ok")
        /\ route = "screenshot" => run.dialed

C23_Witness ==
    /\ FullDirect /\ route = "screenshot"
    /\ remote.version = Transport(ErrRefused)
    /\ env.httpSet /\ env.httpURL = BrowserlessHTTP
    /\ run.wsURL = Str("ws", "chrome", "9222", "/devtools/browser/abc")
    /\ run.calls = <<>>
    /\ resp.status = 200

(***************************************************************************)
(* Claims on auto-expand, the clip and the capture call                    *)
(***************************************************************************)
\* a selector capture whose height was left unset
HeightDeferred == norm.req.Selector # "" /\ norm.req.Height = 0
AutoExpandStarted == "AutoExpand" \in Elems(run.pipe.ran)
\* every call before the clip resolution succeeded
PastAutoExpand ==
    run.stage = "ok" \/ \E i \in DOMAIN run.pipe.ran : PhaseRank(run.pipe.ran[i]) > 9
HeightNeverChanged ==
    /\ run.pipe.viewportHeight = run.pipe.metrics[1].height
    /\ \A i \in DOMAIN run.pipe.metrics :
          run.pipe.metrics[i].height = run.pipe.metrics[1].height

CaptureIssued == Screenshot /\ run.dialed /\ run.pipe.capture.issued
MeasuredBox ==
    ClipOf(remote.rect.X, remote.rect.Y, remote.rect.Width, remote.rect.Height)
ContentBox == ClipOf(0, 0, remote.layout.w, remote.layout.h)
ClipBranches ==
    {n \in {"MeasureSelector", "FullPageMetrics"} : n \in Elems(run.pipe.ran)}
OnlyURL == raw.f = [ZeroRequest EXCEPT !.URL = raw.f.URL] /\ raw.bad = {}

\* C25: the clip is resolved by exactly one branch, in priority order: with a
\* selector the measured bounding box, whatever the explicit clip and the
\* full-page flag; else with full-page and no explicit clip the box
\* (0, 0, content width, content height); else the explicit clip, or none. A
\* request with only a URL is captured with no clip.
C25_ClipPriority ==
    CaptureIssued =>
        /\ norm.req.Selector # "" =>
              /\ ClipBranches = {"MeasureSelector"}
              /\ run.pipe.capture.clip = MeasuredBox
        /\ (norm.req.Selector = "" /\ norm.req.FullPage /\ ~norm.req.Clip.present) =>
              /\ ClipBranches = {"FullPageMetrics"}
              /\ run.pipe.capture.clip = ContentBox
        /\ (norm.req.Selector = "" /\ ~(norm.req.FullPage /\ ~norm.req.Clip.present)) =>
              /\ ClipBranches = {}
              /\ run.pipe.capture.clip = norm.req.Clip
        /\ OnlyURL => ~run.pipe.capture.clip.present

C25_Witness ==
    /\ CaptureIssued
    /\ norm.req.Selector # "" /\ norm.req.FullPage /\ norm.req.Clip.present
    /\ run.pipe.capture.clip = MeasuredBox
    /\ MeasuredBox # norm.req.Clip

\* the clip resolution left a clip: one of its three sources applied
ClipResolved ==
    \/ norm.req.Selector # ""
    \/ norm.req.FullPage /\ ~norm.req.Clip.present
    \/ norm.req.Clip.present
Lossy == norm.req.Format \in {"jpeg", "webp"}

\* C26: the capture call carries a quality if and only if the format is jpeg
\* or webp, a clip if and only if the clip resolution produced one, and the
\* capture-beyond-viewport flag if and only if the request is a full-page
\* capture with no selector and no explicit clip.
C26_CaptureParameters ==
    CaptureIssued =>
        /\ run.pipe.capture.hasQuality <=> Lossy
        /\ run.pipe.capture.hasQuality => run.pipe.capture.quality = norm.req.Quality
        /\ run.pipe.capture.clip.present <=> ClipResolved
        /\ run.pipe.capture.clip = run.pipe.clip
        /\ run.pipe.capture.beyondViewport <=>
              (norm.req.FullPage /\ norm.req.Selector = "" /\ ~norm.req.Clip.present)

C26_Witness ==
    /\ CaptureIssued
    /\ Lossy /\ run.pipe.capture.hasQuality /\ run.pipe.capture.quality = 80
    /\ run.pipe.capture.beyondViewport
    /\ run.pipe.capture.clip = ContentBox

(***************************************************************************)
(* Concurrent handling: gin runs each request's handler in a goroutine of  *)
(* its own; the handlers share the environment and the remote browser.     *)
(* In this specification raw, pc, route, norm, resp and run hold one entry *)
(* per request, and a handler advances one call at a time.                 *)
(***************************************************************************)
Reqs == {1, 2}

ConcurrentRequests ==
    {NominalRaw,
     Post([NominalRequest EXCEPT !.Selector = "#main"]),
     Post([NominalRequest EXCEPT !.Clip = ClipOf(10, 20, 300, 400), !.Format = "jpeg"]),
     Get([NominalRequest EXCEPT !.Format = "Jpeg", !.Quality = 80, !.FullPage = TRUE]),
     Post([NominalRequest EXCEPT !.Mobile = TRUE, !.Landscape = TRUE,
                                 !.Width = 400, !.Height = 800]),
     Post([NominalRequest EXCEPT !.Width = 99])}

ConcurrentRemotes ==
    {NominalRemote,
     [NominalRemote EXCEPT !.version = OkWS(AdvertisedBare)],
     [NominalRemote EXCEPT !.version = Transport(ErrRefused)],
     [NominalRemote EXCEPT !.dial = [expired |-> FALSE, err |-> ErrRefused]],
     [NominalRemote EXCEPT !.failAt = "Navigate", !.phaseErr = ErrDeadline]}

\* variables of package scope, shared by every handler: the program has none
LocalsShared(rn, i) == rn[1].call.pipe

\* viewportWidth, viewportHeight, clip and img are declared in the handler
\* function, one set per call (part_000:644-655, 797, 849)
Locals(rn, i) == rn[i].call.pipe

InitConcurrent ==
    /\ raw \in [Reqs -> ConcurrentRequests]
    /\ env = NominalEnv
    /\ remote \in ConcurrentRemotes
    /\ pc = [i \in Reqs |-> "start"]
    /\ route = [i \in Reqs |-> ""]
    /\ norm = [i \in Reqs |-> NoNorm]
    /\ resp = [i \in Reqs |-> NoResp]
    /\ run = [i \in Reqs |-> [call |-> NoRun, seen |-> NominalRemote]]

\* parseRequest, applyDefaults, validate (part_000:632-642)
ReceiveRequest(i) ==
    /\ pc[i] = "start"
    /\ \E n \in {Normalize(raw[i])} :
          /\ norm' = [norm EXCEPT ![i] = n]
          /\ IF n.status # 0
             THEN /\ resp' = [resp EXCEPT ![i] = Response(400, n.err, <<>>, FALSE)]
                  /\ run' = [run EXCEPT ![i].call = Return([NoRun EXCEPT !.stage = "validate"])]
                  /\ pc' = [pc EXCEPT ![i] = "done"]
             ELSE /\ pc' = [pc EXCEPT ![i] = "parsed"]
                  /\ UNCHANGED <<resp, run>>
    /\ route' = [route EXCEPT ![i] = "screenshot"]
    /\ UNCHANGED <<raw, env, remote>>

\* resolveWSEndpoint(overallCtx) (part_000:660-673)
ResolveEndpoint(i) ==
    /\ pc[i] = "parsed"
    /\ \E res \in {resolveWSEndpoint(env, remote)} :
          \E resolved \in {[NoRun EXCEPT !.calls = res.calls, !.wsURL = res.ws,
                                         !.configured = res.configured,
                                         !.resolveErr = res.err,
                                         !.pipe = StartState(norm[i].req)]} :
             /\ remote' = AfterCalls(remote, res.calls)
             /\ IF ~res.configured \/ res.err.isErr
                THEN /\ resp' = [resp EXCEPT ![i] = ResolveFailure(res)]
                     /\ run' = [run EXCEPT
                                  ![i] = [call |-> Return([resolved EXCEPT !.stage = "resolve"]),
                                          seen |-> remote]]
                     /\ pc' = [pc EXCEPT ![i] = "done"]
                ELSE /\ run' = [run EXCEPT ![i] = [call |-> resolved, seen |-> remote]]
                     /\ pc' = [pc EXCEPT ![i] = "resolved"]
                     /\ UNCHANGED resp
    /\ UNCHANGED <<raw, env, route, norm>>

\* chromedp.Run(dialCtx) (part_000:685-711)
DialBrowser(i) ==
    /\ pc[i] = "resolved"
    /\ IF remote.dial.err.isErr
       THEN /\ resp' = [resp EXCEPT ![i] = DialFailure(remote.dial)]
            /\ run' = [run EXCEPT ![i].call = Return([@ EXCEPT !.stage = "dial",
                                                                !.dialed = TRUE])]
            /\ pc' = [pc EXCEPT ![i] = "done"]
       ELSE /\ run' = [run EXCEPT ![i].call.dialed = TRUE]
            /\ pc' = [pc EXCEPT ![i] = "running"]
            /\ UNCHANGED resp
    /\ UNCHANGED <<raw, env, remote, route, norm>>

\* the next action of chromedp.Run(taskCtx, actions...) (part_000:872)
RunAction(i) ==
    /\ pc[i] = "running"
    /\ \E st \in {Locals(run, i)}, actions \in {Actions(norm[i].req)} :
          /\ ~st.err.isErr
          /\ Len(st.ran) < Len(actions)
          /\ \E name \in {actions[Len(st.ran) + 1]} :
                run' = [run EXCEPT ![i].call.pipe =
                          IF remote.failAt = name
                          THEN [st EXCEPT !.ran = Append(@, name), !.err = remote.phaseErr]
                          ELSE Step(name, [st EXCEPT !.ran = Append(@, name)],
                                    norm[i].req, remote)]
    /\ UNCHANGED <<raw, env, remote, pc, route, norm, resp>>

\* the response after chromedp.Run returned (part_000:872-888)
Respond(i) ==
    /\ pc[i] = "running"
    /\ \E st \in {Locals(run, i)} :
          /\ st.err.isErr \/ Len(st.ran) >= Len(Actions(norm[i].req))
          /\ IF st.err.isErr
             THEN /\ resp' = [resp EXCEPT ![i] = RunFailure(st.err)]
                  /\ run' = [run EXCEPT ![i].call = Return([@ EXCEPT !.stage = "run",
                                                                  !.pipe = st])]
             ELSE /\ resp' = [resp EXCEPT ![i] =
                                ImageResponse(contentTypeForFormat(norm[i].req.Format),
                                              st.img)]
                  /\ run' = [run EXCEPT ![i].call = Return([@ EXCEPT !.stage = "ok",
                                                                  !.pipe = st])]
    /\ pc' = [pc EXCEPT ![i] = "done"]
    /\ UNCHANGED <<raw, env, remote, route, norm>>

NextConcurrent ==
    \E i \in Reqs :
        \/ ReceiveRequest(i)
        \/ ResolveEndpoint(i)
        \/ DialBrowser(i)
        \/ RunAction(i)
        \/ Respond(i)

SpecConcurrent == InitConcurrent /\ [][NextConcurrent]_vars

\* what the handler gives a request handled with no other request in flight,
\* against the remote as the request met it
Alone(i) == screenshotHandler(raw[i], env, run[i].seen)

\* C27: under every interleaving of two concurrently handled requests, each
\* request's viewport, clip, captured image and response are those of the
\* request handled alone: they depend on its own fields and on the remote's
\* answers to its own calls, never on the other request.
C27_Isolation ==
    \A i \in Reqs :
        pc[i] = "done" =>
            /\ resp[i] = Alone(i).resp
            /\ norm[i] = Alone(i).norm
            /\ run[i].call = Alone(i).run

C27_Witness ==
    /\ pc[1] = "done" /\ run[1].call.stage = "ok"
    /\ pc[2] = "running" /\ Len(run[2].call.pipe.ran) = 3
    /\ raw[1] # raw[2]
    /\ run[1].call.pipe.clip # run[2].call.pipe.clip
    /\ run[2].seen.created = 0 /\ run[1].seen.created = 1

(***************************************************************************)
(* Claims on the fallbacks, the single response and the viewport bounds    *)
(***************************************************************************)
\* the /json/version call itself failed: transport error, non-2xx status or
\* undecodable body
VersionCallFailed == remote.version.kind \in {"transport", "status", "badjson"}
FallbackSent ==
    \E i \in DOMAIN run.calls : run.calls[i].req \in {"PUT /json/new", "GET /json/list"}

\* C28: PUT /json/new and GET /json/list are sent only when GET /json/version
\* answered 2xx with a decodable body whose webSocketDebuggerUrl lacks the
\* /devtools/ prefix; when the /json/version call itself fails, resolution
\* fails at once with that call's error and no fallback request is sent.
C28_FallbackOnlyWithoutPath ==
    Discovered =>
        /\ FallbackSent => VersionLacksPath
        /\ VersionCallFailed =>
              /\ CallsSent = <<"GET /json/version">>
              /\ run.resolveErr = CallError(remote.version, "browserless /json/version")
              /\ run.wsURL = EmptyStr
              /\ route = "screenshot" => resp.status \in {502, 504}
              /\ route = "health" => resp.status = 503

C28_Witness ==
    /\ Discovered /\ VersionCallFailed
    /\ remote.version.kind = "status"
    /\ NewUsable /\ ListUsable
    /\ ~FallbackSent
    /\ run.resolveErr.isErr

Handled == pc = "done" /\ route \in {"screenshot", "health"}
IsError(r) == r.status >= 400
CarriesImage(r) == r.body # "" \/ r.contentType # "application/json"

\* C29: every handling of a /screenshot or /health request writes exactly one
\* response, on every path through validation, resolution, dial and the
\* pipeline: one status and body, never an error together with image data,
\* never a return without a response.
C29_OneResponse ==
    Handled =>
        /\ Len(run.writes) = 1
        /\ run.writes[1] = resp
        /\ resp.status \in {200, 400, 500, 502, 503, 504}
        /\ ~(IsError(resp) /\ CarriesImage(resp))
        /\ route = "screenshot" =>
              /\ run.stage \in {"validate", "resolve", "dial", "run"} => IsError(resp)
              /\ run.stage = "ok" => resp.status = 200 /\ resp.body = remote.img

C29_Witness ==
    /\ Handled /\ route = "screenshot"
    /\ run.stage = "run" /\ remote.failAt = "Capture"
    /\ Len(run.writes) = 1 /\ resp.status = 504 /\ ~CarriesImage(resp)

\* C30 (as stated): every device-metrics override sent to the browser for a
\* validated request has width in [100, 4096] and height in [100, 30000],
\* whatever the width, height, selector, mobile and landscape of the request.
C30_AsStated ==
    Configured =>
        \A i \in DOMAIN run.pipe.metrics :
            /\ run.pipe.metrics[i].width \in 100..4096
            /\ run.pipe.metrics[i].height \in 100..maxAutoViewportHeight

(***************************************************************************)
(* Claims on the device metrics and on the resolved URL                    *)
(***************************************************************************)
\* the height the auto-expand phase computes from the measured page height
\* (tenths of a pixel) and the viewport height it finds
RoundedUp ==
    IF MeasuredHeight % 10 = 0 THEN MeasuredHeight \div 10 ELSE MeasuredHeight \div 10 + 1
ComputedHeight ==
    LET raised == IF RoundedUp < HeightBefore THEN HeightBefore ELSE RoundedUp
    IN  IF raised > maxAutoViewportHeight THEN maxAutoViewportHeight ELSE raised

\* C31: device metrics are applied at most twice per request, once in
\* Configure and at most once in AutoExpand; AutoExpand re-applies them if and
\* only if the height it computed differs from the current viewport height,
\* with the same width, scale and mobile flag, and never with a lower height.
C31_MetricsAtMostTwice ==
    Configured =>
        /\ Len(run.pipe.metrics) <= 2
        /\ Len(run.pipe.metrics) = 2 => AutoExpandStarted
        /\ AutoExpanded =>
              /\ Len(run.pipe.metrics) = 2 <=> ComputedHeight # HeightBefore
              /\ run.pipe.viewportHeight = ComputedHeight
              /\ run.pipe.viewportHeight >= HeightBefore
        /\ Len(run.pipe.metrics) = 2 =>
              /\ run.pipe.metrics[2].width = run.pipe.metrics[1].width
              /\ run.pipe.metrics[2].scale = run.pipe.metrics[1].scale
              /\ run.pipe.metrics[2].mobile = run.pipe.metrics[1].mobile
              /\ run.pipe.metrics[2].height > run.pipe.metrics[1].height
              /\ run.pipe.metrics[2].height = ComputedHeight

C31_Witness ==
    /\ Configured /\ AutoExpanded /\ run.stage = "ok"
    /\ ComputedHeight = HeightBefore
    /\ RoundedUp < HeightBefore
    /\ Len(run.pipe.metrics) = 1
    /\ run.pipe.viewportHeight = run.pipe.metrics[1].height

\* a handler's resolution returned a URL and no error
ReturnedURL ==
    /\ pc = "done" /\ route \in {"screenshot", "health"}
    /\ run.configured /\ ~run.resolveErr.isErr
    /\ run.stage # "validate"
\* the authority the control-plane base gives: its host, and its port or the
\* default port of its scheme
BaseAuthority ==
    <<BaseUsed.Hostname,
      IF BaseUsed.Port # "" THEN BaseUsed.Port
      ELSE IF BaseUsed.Scheme = "http" THEN "80" ELSE "443">>
Authority(ws) == <<ws.Hostname, ws.Port>>

\* C32: every WebSocket URL that resolution returns without error, and so
\* every URL that is dialed, has a path beginning with /devtools/; a URL
\* obtained through /json/version, /json/new or /json/list has the scheme and
\* the host:port derived from the control-plane base, never the authority the
\* remote advertised.
C32_ResolvedURL ==
    /\ ReturnedURL =>
          /\ run.wsURL.ok
          /\ run.wsURL.Path \in DevToolsPaths
    /\ (pc = "done" /\ route = "screenshot" /\ run.dialed) => ReturnedURL
    /\ (pc = "done" /\ route = "health" /\ resp.status = 200) => ReturnedURL
    /\ (ReturnedURL /\ run.calls # <<>>) =>
          /\ run.wsURL.Scheme = (IF BaseUsed.Scheme = "https" THEN "wss" ELSE "ws")
          /\ BaseUsed.Scheme \in {"http", "https"}
          /\ Authority(run.wsURL) = BaseAuthority
          /\ \A d \in Discovery :
                (d.ok /\ Authority(d) # BaseAuthority) => Authority(run.wsURL) # Authority(d)

C32_Witness ==
    /\ ReturnedURL /\ route = "screenshot" /\ run.dialed
    /\ Len(run.calls) = 3
    /\ BaseUsed = BrowserlessHTTP
    /\ AdvertisedListed \in Discovery
    /\ run.wsURL = Str("ws", "browserless", "3000", "/devtools/page/P2")

====
